---- MODULE Spec2Model ----
(***************************************************************************)
(* A model of the terminal chat client: the split-pane tree                *)
(* (src/src/split_view.rs), the per-pane state (src/src/widgets.rs), the   *)
(* orchestrator App (src/src/app.rs) and the event loop run_app            *)
(* (src/src/main.rs).                                                      *)
(*                                                                         *)
(* Conventions.  Pane ids are 0-based as in the source; the pane array is  *)
(* a sequence, so pane id i is panes[i + 1].  An Option whose value is a   *)
(* short text is that text or the string "None"; an Option of a structured *)
(* value is a sequence, <<>> for None and <<v>> for Some(v).  An input     *)
(* String is a sequence of characters (one-character strings); byte        *)
(* offsets into it are computed with len_utf8.  A JID "user@server" is the *)
(* record [user, server].  The backend                                     *)
(* (WhatsAppClient) is an external collaborator: every call to it is an    *)
(* input drawn from a small set, "Err" being a failed call.                *)
(***************************************************************************)
EXTENDS Integers, Sequences, FiniteSets, TLC

\* ------------------------------------------------------------------ bounds
\* The pane array never grows beyond MaxPanes slots (guards the split keys).
MaxPanes == 4
\* The longest run of cycle_focus calls of the scripted call sequence.
MaxCycle == 5

VARIABLES
    pane_tree,           \* App.pane_tree : PaneNode
    panes,               \* App.panes : Vec<ChatPane>
    focused_pane_idx,    \* App.focused_pane_idx
    focus_on_chat_list,  \* App.focus_on_chat_list
    status_message,      \* App.status_message (None or the text)
    chats,               \* App.chats : Vec<ChatInfo>
    selected_chat_idx,   \* App.selected_chat_idx
    pane_areas,          \* App.pane_areas: the leaves given a rectangle by the last draw
    chat_list_area,      \* App.chat_list_area: whether the last draw gave the chat list a rectangle
    needs_redraw,        \* App.needs_redraw
    input_history,       \* App.input_history
    history_idx,         \* App.history_idx (None or a 0-based index)
    history_temp,        \* App.history_temp
    settings,            \* App's display flags (show_reactions, compact_mode, ...)
    panicked,            \* the process aborted on a Rust panic
    pc,                  \* position of run_app's loop body
    script               \* the position of a scripted call sequence ("none" outside one)

vars == <<pane_tree, panes, focused_pane_idx, focus_on_chat_list, status_message,
          chats, selected_chat_idx, pane_areas, chat_list_area, needs_redraw, input_history,
          history_idx, history_temp, settings, panicked, pc, script>>

\* the variables of the App a key or mouse handler may change
layout_vars == <<pane_tree, panes, focused_pane_idx, focus_on_chat_list>>
input_vars == <<input_history, history_idx, history_temp>>
layout_vars_but_panes == <<pane_tree, focused_pane_idx, focus_on_chat_list>>

None == "None"

\* ------------------------------------------------------- generic helpers
Max(a, b) == IF a >= b THEN a ELSE b

\* Vec::iter().position(): 0-based index of the first element equal to x, -1 for None.
RECURSIVE PositionFrom(_, _, _)
PositionFrom(s, x, i) ==
    IF i > Len(s) THEN 0 - 1
    ELSE IF s[i] = x THEN i - 1
    ELSE PositionFrom(s, x, i + 1)

position(s, x) == PositionFrom(s, x, 1)

Contains(s, x) == \E i \in 1..Len(s) : s[i] = x

NoDuplicates(s) == \A i, j \in 1..Len(s) : i # j => s[i] # s[j]

RemoveAt(s, i) == SubSeq(s, 1, i - 1) \o SubSeq(s, i + 1, Len(s))

\* ------------------------------------------------ split_view.rs: PaneNode
Horizontal == "Horizontal"
Vertical == "Vertical"

Single(idx) == [kind |-> "Single", idx |-> idx]

SplitNode(direction, children) ==
    [kind |-> "Split", direction |-> direction, children |-> children]

new_single(pane_idx) == Single(pane_idx)

\* PaneNode::split with the two children in the wrong order.
split_new_child_first(node, direction, new_pane_idx) ==
    SplitNode(direction, <<Single(new_pane_idx), node>>)

\* PaneNode::split that leaves the placeholder of mem::replace out of the children
split_without_old_node(node, direction, new_pane_idx) ==
    SplitNode(direction, <<Single(new_pane_idx)>>)

\* PaneNode::split: the node becomes a Split of [old node, Single(new)].
split(node, direction, new_pane_idx) ==
    SplitNode(direction, <<node, Single(new_pane_idx)>>)

RECURSIVE get_pane_indices(_)
RECURSIVE FlatMapIndices(_)
FlatMapIndices(children) ==
    IF children = <<>> THEN <<>>
    ELSE get_pane_indices(Head(children)) \o FlatMapIndices(Tail(children))

get_pane_indices(node) ==
    IF node.kind = "Single" THEN <<node.idx>>
    ELSE FlatMapIndices(node.children)

RECURSIVE count_panes(_)
RECURSIVE SumCounts(_)
SumCounts(children) ==
    IF children = <<>> THEN 0
    ELSE count_panes(Head(children)) + SumCounts(Tail(children))

count_panes(node) ==
    IF node.kind = "Single" THEN 1
    ELSE SumCounts(node.children)

\* children.iter().position(|child| matches!(child, Single(idx) if idx == pane_idx)),
\* as a 1-based index, 0 when there is none.
RECURSIVE DirectChildPos(_, _, _)
DirectChildPos(children, pane_idx, i) ==
    IF i > Len(children) THEN 0
    ELSE IF children[i].kind = "Single" /\ children[i].idx = pane_idx THEN i
    ELSE DirectChildPos(children, pane_idx, i + 1)

\* PaneNode::find_and_remove_pane, as [found, node]: the returned bool and
\* the node after the call.
RECURSIVE find_and_remove_pane(_, _)
RECURSIVE RemoveInChildren(_, _, _)
\* the loop `for child in children.iter_mut()`: stop at the first child that returns true
RemoveInChildren(children, pane_idx, i) ==
    IF i > Len(children) THEN [found |-> FALSE, children |-> children]
    ELSE LET r == find_and_remove_pane(children[i], pane_idx)
         IN  IF r.found
             THEN [found |-> TRUE, children |-> [children EXCEPT ![i] = r.node]]
             ELSE RemoveInChildren(children, pane_idx, i + 1)

\* find_and_remove_pane that leaves a split with its one remaining child.
find_and_remove_pane_without_collapse(node, pane_idx) ==
    IF node.kind = "Single"
    THEN [found |-> (node.idx = pane_idx), node |-> node]
    ELSE LET pos == DirectChildPos(node.children, pane_idx, 1)
         IN  IF pos # 0
             THEN [found |-> TRUE,
                   node |-> SplitNode(node.direction, RemoveAt(node.children, pos))]
             ELSE LET r == RemoveInChildren(node.children, pane_idx, 1)
                  IN  [found |-> r.found,
                       node |-> SplitNode(node.direction, r.children)]

\* find_and_remove_pane that forgets the result of the recursion.
find_and_remove_pane_dropping_result(node, pane_idx) ==
    IF node.kind = "Single"
    THEN [found |-> (node.idx = pane_idx), node |-> node]
    ELSE LET pos == DirectChildPos(node.children, pane_idx, 1)
         IN  IF pos # 0
             THEN LET rest == RemoveAt(node.children, pos)
                  IN  IF Len(rest) = 1
                      THEN [found |-> TRUE, node |-> rest[1]]
                      ELSE [found |-> TRUE,
                            node |-> SplitNode(node.direction, rest)]
             ELSE LET r == RemoveInChildren(node.children, pane_idx, 1)
                  IN  [found |-> FALSE,
                       node |-> SplitNode(node.direction, r.children)]

\* find_and_remove_pane that ends its search of the children with `true`.
find_and_remove_pane_always_found(node, pane_idx) ==
    IF node.kind = "Single"
    THEN [found |-> (node.idx = pane_idx), node |-> node]
    ELSE LET pos == DirectChildPos(node.children, pane_idx, 1)
         IN  IF pos # 0
             THEN LET rest == RemoveAt(node.children, pos)
                  IN  IF Len(rest) = 1
                      THEN [found |-> TRUE, node |-> rest[1]]
                      ELSE [found |-> TRUE,
                            node |-> SplitNode(node.direction, rest)]
             ELSE LET r == RemoveInChildren(node.children, pane_idx, 1)
                  IN  [found |-> TRUE,
                       node |-> SplitNode(node.direction, r.children)]

find_and_remove_pane(node, pane_idx) ==
    IF node.kind = "Single"
    THEN [found |-> (node.idx = pane_idx), node |-> node]
    ELSE LET pos == DirectChildPos(node.children, pane_idx, 1)
         IN  IF pos # 0
             THEN LET rest == RemoveAt(node.children, pos)
                  IN  IF Len(rest) = 1
                      THEN [found |-> TRUE, node |-> rest[1]]
                      ELSE [found |-> TRUE,
                            node |-> SplitNode(node.direction, rest)]
             ELSE LET r == RemoveInChildren(node.children, pane_idx, 1)
                  IN  [found |-> r.found,
                       node |-> SplitNode(node.direction, r.children)]

\* ------------------------------------------------- app.rs: tree mutation
\* App::split_node_recursive_static, as [found, node].
RECURSIVE split_node_recursive_static(_, _, _, _)
RECURSIVE SplitInChildren(_, _, _, _, _)
SplitInChildren(children, target_idx, direction, new_idx, i) ==
    IF i > Len(children) THEN [found |-> FALSE, children |-> children]
    ELSE LET r == split_node_recursive_static(children[i], target_idx, direction, new_idx)
         IN  IF r.found
             THEN [found |-> TRUE, children |-> [children EXCEPT ![i] = r.node]]
             ELSE SplitInChildren(children, target_idx, direction, new_idx, i + 1)

split_node_recursive_static(node, target_idx, direction, new_idx) ==
    IF node.kind = "Single"
    THEN IF node.idx = target_idx
         THEN [found |-> TRUE, node |-> split(node, direction, new_idx)]
         ELSE [found |-> FALSE, node |-> node]
    ELSE LET r == SplitInChildren(node.children, target_idx, direction, new_idx, 1)
         IN  [found |-> r.found, node |-> SplitNode(node.direction, r.children)]

FlipDirection(direction) ==
    IF direction = Vertical THEN Horizontal ELSE Vertical

\* App::toggle_split_direction_recursive, as [found, node].
RECURSIVE toggle_split_direction_recursive(_, _)
RECURSIVE ToggleInChildren(_, _, _)
ToggleInChildren(children, target_idx, i) ==
    IF i > Len(children) THEN [found |-> FALSE, children |-> children]
    ELSE LET r == toggle_split_direction_recursive(children[i], target_idx)
         IN  IF r.found
             THEN [found |-> TRUE, children |-> [children EXCEPT ![i] = r.node]]
             ELSE ToggleInChildren(children, target_idx, i + 1)

\* toggle_split_direction_recursive that flips the outermost split above the target.
toggle_split_direction_recursive_outermost(node, target_idx) ==
    IF node.kind = "Single"
    THEN [found |-> FALSE, node |-> node]
    ELSE IF Contains(get_pane_indices(node), target_idx)
         THEN [found |-> TRUE,
               node |-> SplitNode(FlipDirection(node.direction), node.children)]
         ELSE [found |-> FALSE, node |-> node]

toggle_split_direction_recursive(node, target_idx) ==
    IF node.kind = "Single"
    THEN [found |-> FALSE, node |-> node]
    ELSE IF DirectChildPos(node.children, target_idx, 1) # 0
         THEN [found |-> TRUE,
               node |-> SplitNode(FlipDirection(node.direction), node.children)]
         ELSE LET r == ToggleInChildren(node.children, target_idx, 1)
              IN  [found |-> r.found,
                   node |-> SplitNode(node.direction, r.children)]

\* a pane created with lines already in its format cache
ChatPane_with_cached_lines ==
    [chat_id |-> <<>>, msg_data |-> <<>>, messages |-> <<>>, scroll_offset |-> 0,
     reply_to_message |-> None, reply_preview |-> None,
     filter_type |-> None, filter_value |-> <<>>,
     unread_count_at_load |-> 0, format_cache |-> {"lines"},
     input_buffer |-> <<>>, input_cursor |-> 0]

\* ------------------------------------------------- widgets.rs: ChatPane
\* ChatPane::new
ChatPane_new ==
    [chat_id |-> <<>>, msg_data |-> <<>>, messages |-> <<>>, scroll_offset |-> 0,
     reply_to_message |-> None, reply_preview |-> None,
     filter_type |-> None, filter_value |-> <<>>,
     unread_count_at_load |-> 0, format_cache |-> {},
     input_buffer |-> <<>>, input_cursor |-> 0]

\* self.panes.get(idx)
HasPane(ps, idx) == idx >= 0 /\ idx < Len(ps)

PaneAt(ps, idx) == ps[idx + 1]

SetPane(ps, idx, pane) == [ps EXCEPT ![idx + 1] = pane]

\* ------------------------------------------------------ app.rs: helpers
\* App::notify
notify(message) == status_message' = message

\* 1-based index of the first chat whose id is chat_id, 0 when there is none:
\* self.chats.iter_mut().find(|c| c.id == chat_id)
RECURSIVE FindChatFrom(_, _, _)
FindChatFrom(cs, chat_id, i) ==
    IF i > Len(cs) THEN 0
    ELSE IF cs[i].id = chat_id THEN i
    ELSE FindChatFrom(cs, chat_id, i + 1)

FindChat(cs, chat_id) == FindChatFrom(cs, chat_id, 1)

\* chat_info.unread = 0 on the first chat with that id
ClearUnread(cs, chat_id) ==
    LET i == FindChat(cs, chat_id)
    IN  IF i = 0 THEN cs ELSE [cs EXCEPT ![i].unread = 0]

\* a focus change that leaves the chat list as it is
mark_pane_chat_read_skipped(cs, ps, pane_idx) == cs

\* App::mark_pane_chat_read, its effect on self.chats
mark_pane_chat_read_chats(cs, ps, pane_idx) ==
    IF ~HasPane(ps, pane_idx) THEN cs
    ELSE IF PaneAt(ps, pane_idx).chat_id = <<>> THEN cs
    ELSE ClearUnread(cs, PaneAt(ps, pane_idx).chat_id[1])

\* App::mark_pane_chat_read, its effect on self.panes
mark_pane_chat_read_panes(ps, pane_idx) ==
    IF ~HasPane(ps, pane_idx) THEN ps
    ELSE IF PaneAt(ps, pane_idx).chat_id = <<>> THEN ps
    ELSE [ps EXCEPT ![pane_idx + 1].unread_count_at_load = 0]

\* "self.focused_pane_idx = p; self.mark_pane_chat_read(self.focused_pane_idx)"
FocusPaneAndMarkRead(p) ==
    /\ focused_pane_idx' = p
    /\ chats' = mark_pane_chat_read_chats(chats, panes, p)
    /\ panes' = mark_pane_chat_read_panes(panes, p)

\* --------------------------------------------- app.rs: split management
\* App::split_vertical / App::split_horizontal (they differ in the direction only).
\* Sets pane_tree, panes, focused_pane_idx, focus_on_chat_list.
\* split_pane with the new leaf given the index of the focused pane
split_pane_reusing_index(direction) ==
    LET new_idx == focused_pane_idx
    IN  /\ panes' = Append(panes, ChatPane_new)
        /\ pane_tree' = split_node_recursive_static(
                            pane_tree, focused_pane_idx, direction, new_idx).node
        /\ focused_pane_idx' = new_idx
        /\ focus_on_chat_list' = FALSE

\* split_pane without `self.panes.push(new_pane)`
split_pane_without_push(direction) ==
    LET new_idx == Len(panes)
    IN  /\ panes' = panes
        /\ pane_tree' = split_node_recursive_static(
                            pane_tree, focused_pane_idx, direction, new_idx).node
        /\ focused_pane_idx' = new_idx
        /\ focus_on_chat_list' = FALSE

split_pane(direction) ==
    LET new_idx == Len(panes)
    IN  /\ panes' = Append(panes, ChatPane_new)
        /\ pane_tree' = split_node_recursive_static(
                            pane_tree, focused_pane_idx, direction, new_idx).node
        /\ focused_pane_idx' = new_idx
        /\ focus_on_chat_list' = FALSE

split_vertical == split_pane(Vertical)

split_horizontal == split_pane(Horizontal)

\* App::toggle_split_direction.  Sets pane_tree, status_message.
toggle_split_direction ==
    LET r == toggle_split_direction_recursive(pane_tree, focused_pane_idx)
    IN  IF r.found
        THEN pane_tree' = r.node /\ UNCHANGED status_message
        ELSE UNCHANGED pane_tree
             /\ notify("No split to toggle - pane is not in a split")

\* the guard written `< 1`
IsLastPane_off_by_one(pane_count_before) == pane_count_before < 1

\* the guard of App::close_pane: `if pane_count_before <= 1`
IsLastPane(pane_count_before) == pane_count_before <= 1

\* App::close_pane without `self.focused_pane_idx = remaining[0]`
close_pane_keeping_focus ==
    IF IsLastPane(count_panes(pane_tree))
    THEN notify("Cannot close the last pane")
         /\ UNCHANGED <<pane_tree, focused_pane_idx>>
    ELSE LET r == find_and_remove_pane(pane_tree, focused_pane_idx)
         IN  /\ pane_tree' = r.node
             /\ UNCHANGED focused_pane_idx
             /\ IF r.found THEN UNCHANGED status_message
                ELSE notify("Failed to close pane")

\* App::close_pane.  Sets pane_tree, focused_pane_idx, status_message.
close_pane ==
    IF IsLastPane(count_panes(pane_tree))
    THEN notify("Cannot close the last pane")
         /\ UNCHANGED <<pane_tree, focused_pane_idx>>
    ELSE LET r == find_and_remove_pane(pane_tree, focused_pane_idx)
             remaining == get_pane_indices(r.node)
         IN  /\ pane_tree' = r.node
             /\ IF r.found
                THEN /\ focused_pane_idx' =
                          IF remaining # <<>> THEN remaining[1] ELSE focused_pane_idx
                     /\ UNCHANGED status_message
                ELSE /\ notify("Failed to close pane")
                     /\ UNCHANGED focused_pane_idx

\* ---------------------------------------------------- app.rs: focus
\* cycle_focus wrapping from the last pane to the first pane, never to the chat list
cycle_focus_skipping_chat_list ==
    LET all_panes == get_pane_indices(pane_tree)
        current_pos == position(all_panes, focused_pane_idx)
    IN  IF all_panes = <<>>
        THEN UNCHANGED <<focus_on_chat_list, focused_pane_idx, chats, panes>>
        ELSE focus_on_chat_list' = FALSE
             /\ FocusPaneAndMarkRead(
                    all_panes[((IF focus_on_chat_list \/ current_pos < 0
                                THEN 0 ELSE current_pos + 1) % Len(all_panes)) + 1])

\* App::cycle_focus.  Sets focus_on_chat_list, focused_pane_idx, chats, panes.
cycle_focus ==
    LET all_panes == get_pane_indices(pane_tree)
        current_pos == position(all_panes, focused_pane_idx)
    IN  IF all_panes = <<>>
        THEN UNCHANGED <<focus_on_chat_list, focused_pane_idx, chats, panes>>
        ELSE IF focus_on_chat_list
        THEN focus_on_chat_list' = FALSE /\ FocusPaneAndMarkRead(all_panes[1])
        ELSE IF current_pos >= 0
        THEN IF current_pos + 1 < Len(all_panes)
             THEN UNCHANGED focus_on_chat_list
                  /\ FocusPaneAndMarkRead(all_panes[current_pos + 2])
             ELSE focus_on_chat_list' = TRUE
                  /\ UNCHANGED <<focused_pane_idx, chats, panes>>
        ELSE UNCHANGED focus_on_chat_list /\ FocusPaneAndMarkRead(all_panes[1])

\* cycle_focus_reverse leaving the chat list for the first pane, not the last
cycle_focus_reverse_to_first ==
    LET all_panes == get_pane_indices(pane_tree)
        current_pos == position(all_panes, focused_pane_idx)
    IN  IF all_panes = <<>>
        THEN UNCHANGED <<focus_on_chat_list, focused_pane_idx, chats, panes>>
        ELSE IF focus_on_chat_list
        THEN focus_on_chat_list' = FALSE /\ FocusPaneAndMarkRead(all_panes[1])
        ELSE IF current_pos >= 0
        THEN IF current_pos > 0
             THEN UNCHANGED focus_on_chat_list
                  /\ FocusPaneAndMarkRead(all_panes[current_pos])
             ELSE focus_on_chat_list' = TRUE
                  /\ UNCHANGED <<focused_pane_idx, chats, panes>>
        ELSE UNCHANGED <<focus_on_chat_list, focused_pane_idx, chats, panes>>

\* App::cycle_focus_reverse.  Sets the same variables.
cycle_focus_reverse ==
    LET all_panes == get_pane_indices(pane_tree)
        current_pos == position(all_panes, focused_pane_idx)
    IN  IF all_panes = <<>>
        THEN UNCHANGED <<focus_on_chat_list, focused_pane_idx, chats, panes>>
        ELSE IF focus_on_chat_list
        THEN focus_on_chat_list' = FALSE
             /\ FocusPaneAndMarkRead(all_panes[Len(all_panes)])
        ELSE IF current_pos >= 0
        THEN IF current_pos > 0
             THEN UNCHANGED focus_on_chat_list
                  /\ FocusPaneAndMarkRead(all_panes[current_pos])
             ELSE focus_on_chat_list' = TRUE
                  /\ UNCHANGED <<focused_pane_idx, chats, panes>>
        ELSE UNCHANGED <<focus_on_chat_list, focused_pane_idx, chats, panes>>

\* focus_next_pane that stays on the last pane instead of wrapping to the first
focus_next_pane_without_wrap ==
    LET all_panes == get_pane_indices(pane_tree)
        current_pos == position(all_panes, focused_pane_idx)
        next == IF current_pos + 1 < Len(all_panes) THEN current_pos + 1 ELSE current_pos
    IN  IF Len(all_panes) < 2 \/ current_pos < 0
        THEN UNCHANGED <<focus_on_chat_list, focused_pane_idx, chats, panes>>
        ELSE focus_on_chat_list' = FALSE
             /\ FocusPaneAndMarkRead(all_panes[next + 1])

\* App::focus_next_pane.  Sets the same variables.
focus_next_pane ==
    LET all_panes == get_pane_indices(pane_tree)
        current_pos == position(all_panes, focused_pane_idx)
    IN  IF Len(all_panes) < 2 \/ current_pos < 0
        THEN UNCHANGED <<focus_on_chat_list, focused_pane_idx, chats, panes>>
        ELSE focus_on_chat_list' = FALSE
             /\ FocusPaneAndMarkRead(all_panes[((current_pos + 1) % Len(all_panes)) + 1])

\* App::focus_prev_pane.  Sets the same variables.
focus_prev_pane ==
    LET all_panes == get_pane_indices(pane_tree)
        current_pos == position(all_panes, focused_pane_idx)
        prev == IF current_pos > 0 THEN current_pos - 1 ELSE Len(all_panes) - 1
    IN  IF Len(all_panes) < 2 \/ current_pos < 0
        THEN UNCHANGED <<focus_on_chat_list, focused_pane_idx, chats, panes>>
        ELSE focus_on_chat_list' = FALSE
             /\ FocusPaneAndMarkRead(all_panes[prev + 1])

\* ------------------------------------------------------------- Strings
\* The character U+00E9, two bytes in UTF-8; every other character used is ASCII.
EAcute == "<e9>"

\* char::len_utf8
len_utf8(c) == IF c = EAcute THEN 2 ELSE 1

\* String::len: the length in bytes
RECURSIVE ByteLen(_)
ByteLen(str) == IF str = <<>> THEN 0 ELSE len_utf8(Head(str)) + ByteLen(Tail(str))

\* the byte offset at which character number k (1-based) starts; ByteLen for k = Len + 1
ByteOffset(str, k) == ByteLen(SubSeq(str, 1, k - 1))

\* str::is_char_boundary
is_char_boundary(str, byte) == \E k \in 1..(Len(str) + 1) : ByteOffset(str, k) = byte

\* the number of whole characters before a byte offset that is a boundary
CharsBefore(str, byte) ==
    CHOOSE n \in 0..Len(str) : ByteOffset(str, n + 1) = byte

\* str::starts_with
starts_with(str, prefix) ==
    Len(prefix) <= Len(str) /\ SubSeq(str, 1, Len(prefix)) = prefix

\* ------------------------------------------------ utils.rs: autocomplete
\* the vocabulary of try_autocomplete, in its order
AutocompleteCommands ==
    << <<"/", "r", "e", "p", "l", "y">>,
       <<"/", "m", "e", "d", "i", "a">>,
       <<"/", "e", "d", "i", "t">>,
       <<"/", "d", "e", "l", "e", "t", "e">>,
       <<"/", "a", "l", "i", "a", "s">>,
       <<"/", "s", "e", "a", "r", "c", "h">>,
       <<"/", "f", "o", "r", "w", "a", "r", "d">> >>

\* try_autocomplete: the first component of its result, an Option<String> given as a
\* sequence (<<>> is None, <<t>> is Some(t)); the hint it returns is always None.
RECURSIVE FirstCompletion(_, _)
FirstCompletion(text, i) ==
    IF i > Len(AutocompleteCommands) THEN <<>>
    ELSE IF starts_with(AutocompleteCommands[i], text) THEN <<AutocompleteCommands[i]>>
    ELSE FirstCompletion(text, i + 1)

try_autocomplete(text) ==
    IF starts_with(text, <<"/">>) THEN FirstCompletion(text, 1) ELSE <<>>

\* ----------------------------------------------- app.rs: input editing
\* Each handler below acts on the focused pane and sets panes, history_idx and
\* panicked (String::insert, String::remove and str slicing panic on a byte
\* offset that is out of range or inside a character).
FocusedPane == PaneAt(panes, focused_pane_idx)

SetFocusedInput(buffer, cursor) ==
    panes' = [panes EXCEPT ![focused_pane_idx + 1].input_buffer = buffer,
                           ![focused_pane_idx + 1].input_cursor = cursor]

Panic == panicked' = TRUE /\ UNCHANGED <<panes, history_idx>>

\* String::insert(idx, c), idx a valid boundary
StringInsert(str, byte, c) ==
    LET n == CharsBefore(str, byte)
    IN  SubSeq(str, 1, n) \o <<c>> \o SubSeq(str, n + 1, Len(str))

\* String::remove(idx), idx the start of a character
StringRemove(str, byte) == RemoveAt(str, CharsBefore(str, byte) + 1)

\* the byte offset of the last character that starts before `byte`:
\* str[..byte].char_indices().next_back().map(|(i, _)| i).unwrap_or(0)
PrevBoundary(str, byte) ==
    LET n == CharsBefore(str, byte)
    IN  IF n = 0 THEN 0 ELSE ByteOffset(str, n)

\* App::handle_char
handle_char(c) ==
    IF ~HasPane(panes, focused_pane_idx)
    THEN history_idx' = 0 - 1 /\ UNCHANGED <<panes, panicked>>
    ELSE LET pane == FocusedPane
         IN  IF ~is_char_boundary(pane.input_buffer, pane.input_cursor)
             THEN Panic
             ELSE /\ SetFocusedInput(
                        StringInsert(pane.input_buffer, pane.input_cursor, c),
                        pane.input_cursor + len_utf8(c))
                  /\ history_idx' = 0 - 1
                  /\ UNCHANGED panicked

\* App::handle_backspace
handle_backspace ==
    IF ~HasPane(panes, focused_pane_idx) \/ FocusedPane.input_cursor <= 0
    THEN history_idx' = 0 - 1 /\ UNCHANGED <<panes, panicked>>
    ELSE LET pane == FocusedPane
             prev == PrevBoundary(pane.input_buffer, pane.input_cursor)
         IN  IF ~is_char_boundary(pane.input_buffer, pane.input_cursor)
             THEN Panic
             ELSE /\ SetFocusedInput(StringRemove(pane.input_buffer, prev), prev)
                  /\ history_idx' = 0 - 1
                  /\ UNCHANGED panicked

\* App::handle_delete
handle_delete ==
    IF ~HasPane(panes, focused_pane_idx)
       \/ FocusedPane.input_cursor >= ByteLen(FocusedPane.input_buffer)
    THEN UNCHANGED <<panes, history_idx, panicked>>
    ELSE LET pane == FocusedPane
         IN  IF ~is_char_boundary(pane.input_buffer, pane.input_cursor)
             THEN Panic
             ELSE /\ SetFocusedInput(
                        StringRemove(pane.input_buffer, pane.input_cursor),
                        pane.input_cursor)
                  /\ UNCHANGED <<history_idx, panicked>>

\* App::handle_input_left
handle_input_left ==
    IF ~HasPane(panes, focused_pane_idx) \/ FocusedPane.input_cursor <= 0
    THEN UNCHANGED <<panes, history_idx, panicked>>
    ELSE LET pane == FocusedPane
         IN  IF ~is_char_boundary(pane.input_buffer, pane.input_cursor)
             THEN Panic
             ELSE /\ SetFocusedInput(pane.input_buffer,
                        PrevBoundary(pane.input_buffer, pane.input_cursor))
                  /\ UNCHANGED <<history_idx, panicked>>

\* App::handle_input_right
handle_input_right ==
    IF ~HasPane(panes, focused_pane_idx)
       \/ FocusedPane.input_cursor >= ByteLen(FocusedPane.input_buffer)
    THEN UNCHANGED <<panes, history_idx, panicked>>
    ELSE LET pane == FocusedPane
             n == CharsBefore(pane.input_buffer, pane.input_cursor)
         IN  IF ~is_char_boundary(pane.input_buffer, pane.input_cursor)
             THEN Panic
             ELSE /\ SetFocusedInput(pane.input_buffer,
                        pane.input_cursor + len_utf8(pane.input_buffer[n + 1]))
                  /\ UNCHANGED <<history_idx, panicked>>

\* App::handle_home
handle_home ==
    /\ IF HasPane(panes, focused_pane_idx)
       THEN SetFocusedInput(FocusedPane.input_buffer, 0)
       ELSE UNCHANGED panes
    /\ UNCHANGED <<history_idx, panicked>>

\* App::handle_end
handle_end ==
    /\ IF HasPane(panes, focused_pane_idx)
       THEN SetFocusedInput(FocusedPane.input_buffer, ByteLen(FocusedPane.input_buffer))
       ELSE UNCHANGED panes
    /\ UNCHANGED <<history_idx, panicked>>

\* ChatPane::clear
ChatPane_clear(pane) ==
    [pane EXCEPT !.messages = <<>>, !.msg_data = <<>>, !.scroll_offset = 0,
                 !.input_buffer = <<>>, !.format_cache = {}]

\* App::clear_pane.  Sets panes.
clear_pane ==
    IF HasPane(panes, focused_pane_idx)
    THEN panes' = SetPane(panes, focused_pane_idx, ChatPane_clear(FocusedPane))
    ELSE UNCHANGED panes

\* App::chat_list_order().len(): every chat is in exactly one of the three groups
chat_list_len == Len(chats)

saturating_sub(a, b) == IF a >= b THEN a - b ELSE 0

\* App::handle_up.  Sets selected_chat_idx, panes, history_idx, history_temp.
handle_up ==
    IF focus_on_chat_list
    THEN LET max_idx == saturating_sub(chat_list_len, 1)
         IN  /\ selected_chat_idx' =
                    IF selected_chat_idx > max_idx THEN max_idx
                    ELSE IF selected_chat_idx > 0 THEN selected_chat_idx - 1
                    ELSE selected_chat_idx
             /\ UNCHANGED <<panes, history_idx, history_temp>>
    ELSE /\ UNCHANGED selected_chat_idx
         /\ IF input_history = <<>> \/ ~HasPane(panes, focused_pane_idx)
            THEN UNCHANGED <<panes, history_idx, history_temp>>
            ELSE IF history_idx < 0
            THEN /\ history_temp' = FocusedPane.input_buffer
                 /\ history_idx' = Len(input_history) - 1
                 /\ SetFocusedInput(input_history[Len(input_history)],
                                     ByteLen(input_history[Len(input_history)]))
            ELSE IF history_idx > 0
            THEN /\ history_idx' = history_idx - 1
                 /\ SetFocusedInput(input_history[history_idx],
                                     ByteLen(input_history[history_idx]))
                 /\ UNCHANGED history_temp
            ELSE UNCHANGED <<panes, history_idx, history_temp>>

\* App::handle_down.  Sets the same variables.
handle_down ==
    IF focus_on_chat_list
    THEN LET max_idx == saturating_sub(chat_list_len, 1)
         IN  /\ selected_chat_idx' =
                    IF selected_chat_idx < max_idx THEN selected_chat_idx + 1
                    ELSE selected_chat_idx
             /\ UNCHANGED <<panes, history_idx, history_temp>>
    ELSE /\ UNCHANGED <<selected_chat_idx, history_temp>>
         /\ IF ~HasPane(panes, focused_pane_idx) \/ history_idx < 0
            THEN UNCHANGED <<panes, history_idx>>
            ELSE IF history_idx + 1 < Len(input_history)
            THEN /\ history_idx' = history_idx + 1
                 /\ SetFocusedInput(input_history[history_idx + 2],
                                     ByteLen(input_history[history_idx + 2]))
            ELSE /\ history_idx' = 0 - 1
                 /\ SetFocusedInput(history_temp, ByteLen(history_temp))

\* handle_tab that completes the command and leaves the cursor where it was
handle_tab_keeping_cursor ==
    LET is_empty == IF HasPane(panes, focused_pane_idx)
                    THEN FocusedPane.input_buffer = <<>> ELSE TRUE
    IN  IF is_empty
        THEN cycle_focus
        ELSE LET completed == try_autocomplete(FocusedPane.input_buffer)
             IN  IF completed # <<>>
                 THEN /\ SetFocusedInput(completed[1], FocusedPane.input_cursor)
                      /\ UNCHANGED <<focus_on_chat_list, focused_pane_idx, chats>>
                 ELSE cycle_focus

\* App::handle_tab.  Sets focus_on_chat_list, focused_pane_idx, chats, panes.
handle_tab ==
    LET is_empty == IF HasPane(panes, focused_pane_idx)
                    THEN FocusedPane.input_buffer = <<>> ELSE TRUE
    IN  IF is_empty
        THEN cycle_focus
        ELSE LET completed == try_autocomplete(FocusedPane.input_buffer)
             IN  IF completed # <<>>
                 THEN /\ SetFocusedInput(completed[1], ByteLen(completed[1]))
                      /\ UNCHANGED <<focus_on_chat_list, focused_pane_idx, chats>>
                 ELSE cycle_focus

\* ------------------------------------------------- the backend's answers
\* A Result<T> of a backend call: Ok(value) or Err.
Ok(value) == [ok |-> TRUE, value |-> value]

Err == [ok |-> FALSE, value |-> <<>>]

\* ------------------------------------------------- app.rs: the chat list
\* A ChatInfo is [id, name, unread]; is_group is `id ends with "@g.us"`.
Jid(user, server) == [user |-> user, server |-> server]

ChatInfo(id, name, unread) == [id |-> id, name |-> name, unread |-> unread]

\* jid.ends_with("@s.whatsapp.net") and jid.ends_with("@lid")
is_phone_jid(jid) == jid.server = "s.whatsapp.net"

is_lid_jid(jid) == jid.server = "lid"

\* the chat ids open in some pane: panes.iter().filter_map(|p| p.chat_id.clone())
open_chat_ids(ps) == {ps[i].chat_id[1] : i \in {j \in 1..Len(ps) : ps[j].chat_id # <<>>}}

\* the ids of a chat list, as a set
ChatIds(cs) == {cs[i].id : i \in 1..Len(cs)}

\* App::extract_phone_from_jid: Some(the part before '@') for the two servers
extract_phone_from_jid(jid) ==
    IF is_phone_jid(jid) \/ is_lid_jid(jid) THEN <<jid.user>> ELSE <<>>

\* 1-based index of the first chat with a phone JID and this name, 0 when none
RECURSIVE FindPhoneChatNamed(_, _, _)
FindPhoneChatNamed(all_chats, name, i) ==
    IF i > Len(all_chats) THEN 0
    ELSE IF is_phone_jid(all_chats[i].id) /\ all_chats[i].name = name THEN i
    ELSE FindPhoneChatNamed(all_chats, name, i + 1)

\* App::normalize_jid
normalize_jid(jid, all_chats) ==
    IF is_lid_jid(jid) /\ FindChat(all_chats, jid) # 0
    THEN LET name == all_chats[FindChat(all_chats, jid)].name
             m == FindPhoneChatNamed(all_chats, name, 1)
         IN  IF m # 0 THEN all_chats[m].id ELSE jid
    ELSE jid

\* refresh_chat_list's `normalized_chats`
normalized_chats(new_chats) ==
    [i \in 1..Len(new_chats) |->
        [new_chats[i] EXCEPT !.id = normalize_jid(new_chats[i].id, new_chats)]]

\* refresh_chat_list's `phone_key`: the phone of a phone JID, the name of a lid chat
phone_key(chat) ==
    IF is_phone_jid(chat.id) THEN extract_phone_from_jid(chat.id)
    ELSE IF is_lid_jid(chat.id) THEN <<chat.name>>
    ELSE <<>>

\* seen_phones.get(&key): the 1-based index in `kept` of the entry stored under key
RECURSIVE SeenPhone(_, _, _)
SeenPhone(kept, key, i) ==
    IF i > Len(kept) THEN 0
    ELSE IF phone_key(kept[i]) = key THEN i
    ELSE SeenPhone(kept, key, i + 1)

\* refresh_chat_list's deduplication loop over normalized_chats, from entry i on
RECURSIVE deduplicated_chats(_, _, _)
deduplicated_chats(normalized, i, kept) ==
    IF i > Len(normalized) THEN kept
    ELSE LET chat == normalized[i]
             key == phone_key(chat)
             existing_idx == IF key = <<>> THEN 0 ELSE SeenPhone(kept, key, 1)
         IN  IF key = <<>> \/ existing_idx = 0
             THEN deduplicated_chats(normalized, i + 1, Append(kept, chat))
             ELSE IF is_lid_jid(kept[existing_idx].id) /\ is_phone_jid(chat.id)
             THEN deduplicated_chats(normalized, i + 1,
                                     [kept EXCEPT ![existing_idx] = chat])
             ELSE deduplicated_chats(normalized, i + 1, kept)

\* new_chats_map.get(id): collecting into a HashMap keeps the last entry of an id
RECURSIVE MapGet(_, _, _)
MapGet(entries, id, i) ==
    IF i = 0 THEN <<>>
    ELSE IF entries[i].id = id THEN <<entries[i]>>
    ELSE MapGet(entries, id, i - 1)

\* self.chats.retain(|c| seen_jids.insert(c.id.clone())): the first chat of each id
RECURSIVE RetainFirstOfEachId(_, _)
RetainFirstOfEachId(cs, seen) ==
    IF cs = <<>> THEN <<>>
    ELSE IF Head(cs).id \in seen THEN RetainFirstOfEachId(Tail(cs), seen)
    ELSE <<Head(cs)>> \o RetainFirstOfEachId(Tail(cs), seen \cup {Head(cs).id})

\* an incoming count taken in place of the larger of the two
merge_unread_taking_backend(local, backend, was_open) ==
    IF was_open THEN local ELSE backend

\* the unread of an existing chat after the update loop:
\* `if !was_open { existing_chat.unread = existing_chat.unread.max(new_chat.unread) }`
merge_unread(local, backend, was_open) ==
    IF was_open THEN local ELSE Max(local, backend)

\* the update loop `for existing_chat in &mut self.chats`
update_existing_chats(cs, entries, open_ids) ==
    [i \in 1..Len(cs) |->
        LET found == MapGet(entries, cs[i].id, Len(entries))
        IN  IF found = <<>> THEN cs[i]
            ELSE [cs[i] EXCEPT
                     !.name = found[1].name,
                     !.unread = merge_unread(cs[i].unread, found[1].unread,
                                             cs[i].id \in open_ids)]]

\* the entries left in new_chats_map after the update loop, one per id
remaining_new_chats(cs, entries) ==
    {MapGet(entries, id, Len(entries))[1] : id \in ChatIds(entries) \ ChatIds(cs)}

\* the sequences that list every element of a set once: the orders in which
\* `for (_, new_chat) in new_chats_map` may visit the map
RECURSIVE Orderings(_)
Orderings(S) ==
    IF S = {} THEN {<<>>}
    ELSE UNION {{<<x>> \o rest : rest \in Orderings(S \ {x})} : x \in S}

\* App::refresh_chat_list with get_dialogs answering Ok(new_chats): self.chats
\* afterwards, `added` being the order in which the map yielded the new chats
refreshed_chats(cs, ps, new_chats, added) ==
    LET open_ids == open_chat_ids(ps)
        entries == deduplicated_chats(normalized_chats(new_chats), 1, <<>>)
        existing == RetainFirstOfEachId(cs, {})
        updated == update_existing_chats(existing, entries, open_ids)
        kept(c) == c.id \in ChatIds(entries) \/ c.id \in open_ids
    IN  SelectSeq(updated \o added, kept)

\* the chat lists App::refresh_chat_list may leave when get_dialogs answers
\* `dialogs`: Err (the `?` returns early, the list stays as it is) or Ok(a list)
refresh_chat_list_results(cs, ps, dialogs) ==
    IF ~dialogs.ok THEN {cs}
    ELSE {refreshed_chats(cs, ps, dialogs.value, added) :
            added \in Orderings(remaining_new_chats(
                        RetainFirstOfEachId(cs, {}),
                        deduplicated_chats(normalized_chats(dialogs.value), 1, <<>>)))}

\* App::chat_list_groups: the 0-based indices of the chats in (unread, active, other)
chat_list_group(cs, ps, group) ==
    LET kind(i) == IF cs[i].id \in open_chat_ids(ps) THEN "active"
                   ELSE IF cs[i].unread > 0 THEN "unread" ELSE "other"
        in_group(idx) == kind(idx + 1) = group
    IN  SelectSeq([i \in 1..Len(cs) |-> i - 1], in_group)

\* Vec::reverse
Reverse(s) == [i \in 1..Len(s) |-> s[Len(s) + 1 - i]]

\* App::chat_list_order
chat_list_order(cs, ps) ==
    Reverse(chat_list_group(cs, ps, "unread"))
        \o Reverse(chat_list_group(cs, ps, "active"))
        \o Reverse(chat_list_group(cs, ps, "other"))

\* ------------------------------------------------- widgets.rs: messages
\* A MessageData, with the fields the handlers read or write.  Texts are
\* sequences of characters; msg_id is a short text; timestamp is a number.
MessageData(msg_id, sender_id, text, is_outgoing, timestamp, reply_to_msg_id) ==
    [msg_id |-> msg_id, sender_id |-> sender_id, text |-> text,
     is_outgoing |-> is_outgoing, timestamp |-> timestamp,
     reply_to_msg_id |-> reply_to_msg_id]

\* Vec::insert(i, x), i 0-based
InsertAt(s, i, x) == SubSeq(s, 1, i) \o <<x>> \o SubSeq(s, i + 1, Len(s))

\* the number of leading elements of a sorted sequence whose timestamp is <= t
RECURSIVE CountNotAfter(_, _)
CountNotAfter(sorted, t) ==
    IF sorted = <<>> \/ Head(sorted).timestamp > t THEN 0
    ELSE 1 + CountNotAfter(Tail(sorted), t)

\* msg_data.sort_by_key(|m| m.timestamp): a stable sort, oldest first
RECURSIVE sort_by_timestamp(_)
sort_by_timestamp(msgs) ==
    IF msgs = <<>> THEN <<>>
    ELSE LET sorted == sort_by_timestamp(SubSeq(msgs, 1, Len(msgs) - 1))
             last == msgs[Len(msgs)]
         IN  InsertAt(sorted, CountNotAfter(sorted, last.timestamp), last)

\* str::to_lowercase on ASCII letters
UpperCase == <<"A", "B", "C", "D", "E", "F", "G", "H", "I", "J", "K", "L", "M", "N", "O", "P", "Q", "R", "S", "T", "U", "V", "W", "X", "Y", "Z">>

LowerCase == <<"a", "b", "c", "d", "e", "f", "g", "h", "i", "j", "k", "l", "m", "n", "o", "p", "q", "r", "s", "t", "u", "v", "w", "x", "y", "z">>

to_lowercase_char(c) ==
    LET i == position(UpperCase, c) IN IF i >= 0 THEN LowerCase[i + 1] ELSE c

to_lowercase(word) == [i \in 1..Len(word) |-> to_lowercase_char(word[i])]

\* ------------------------------------------------------ formatting.rs
Newline == "\n"

Min(a, b) == IF a <= b THEN a ELSE b

\* str::split(sep): the pieces between the separators, at least one
RECURSIVE SplitOn(_, _)
SplitOn(text, sep) ==
    LET p == position(text, sep)
    IN  IF p < 0 THEN <<text>>
        ELSE <<SubSeq(text, 1, p)>> \o SplitOn(SubSeq(text, p + 2, Len(text)), sep)

\* [String]::join(sep)
RECURSIVE JoinWith(_, _)
JoinWith(parts, sep) ==
    IF parts = <<>> THEN <<>>
    ELSE IF Len(parts) = 1 THEN parts[1]
    ELSE parts[1] \o sep \o JoinWith(Tail(parts), sep)

\* str::repeat
Repeat(c, n) == [i \in 1..n |-> c]

\* what stands in the model for a slice that cuts a character in two (the
\* slice panics)
SlicedCharacter == "<sliced>"

\* &str[byte_start..byte_end]
str_slice(str, byte_start, byte_end) ==
    IF is_char_boundary(str, byte_start) /\ is_char_boundary(str, byte_end)
           /\ byte_start <= byte_end
    THEN SubSeq(str, CharsBefore(str, byte_start) + 1, CharsBefore(str, byte_end))
    ELSE <<SlicedCharacter>>

\* wrap_text's push of a line: the very first line as it is, any other after the pad
PushLine(result_lines, first_line_of_para, pad, line) ==
    IF first_line_of_para /\ result_lines = <<>> THEN Append(result_lines, line)
    ELSE Append(result_lines, pad \o line)

\* a chunk of a long word cut by byte counts instead of character counts
WordChunk_by_bytes(word, char_pos, chunk_end) ==
    str_slice(word, char_pos, Min(chunk_end, ByteLen(word)))

\* wrap_text's chunk of a long word: the characters char_pos .. chunk_end - 1
\* (0-based), sliced out of the word by their byte offsets
WordChunk(word, char_pos, chunk_end) ==
    LET byte_start == ByteOffset(word, char_pos + 1)
        byte_end == IF chunk_end < Len(word) THEN ByteOffset(word, chunk_end + 1)
                    ELSE ByteLen(word)
    IN  str_slice(word, byte_start, byte_end)

\* wrap_text's loop `while char_pos < char_indices.len()` over a long word
RECURSIVE PushChunks(_, _, _, _, _, _)
PushChunks(result_lines, first_line_of_para, pad, word, char_pos, content_width) ==
    IF char_pos >= Len(word) THEN result_lines
    ELSE LET chunk_end == Min(char_pos + content_width, Len(word))
         IN  PushChunks(PushLine(result_lines, first_line_of_para, pad,
                                 WordChunk(word, char_pos, chunk_end)),
                        first_line_of_para, pad, word, chunk_end, content_width)

\* wrap_text's loop `for word in &words`: [result_lines, current_line] after it
RECURSIVE WrapWords(_, _, _, _, _, _)
WrapWords(words, result_lines, current_line, first_line_of_para, pad, content_width) ==
    IF words = <<>>
    THEN [result_lines |-> result_lines, current_line |-> current_line]
    ELSE LET word == Head(words)
             test_line == IF current_line = <<>> THEN word
                          ELSE current_line \o <<" ">> \o word
             flushed == IF current_line # <<>>
                        THEN PushLine(result_lines, first_line_of_para, pad, current_line)
                        ELSE result_lines
         IN  IF Len(word) > content_width
             THEN WrapWords(Tail(words),
                            PushChunks(flushed, first_line_of_para, pad, word, 0,
                                       content_width),
                            <<>>, first_line_of_para, pad, content_width)
             ELSE IF Len(test_line) <= content_width
             THEN WrapWords(Tail(words), result_lines, test_line, first_line_of_para,
                            pad, content_width)
             ELSE WrapWords(Tail(words), flushed, word, first_line_of_para, pad,
                            content_width)

\* wrap_text's loop `for (i, paragraph) in text.split('\n').enumerate()`, from
\* paragraph number i (1-based)
RECURSIVE WrapParagraphs(_, _, _, _, _)
WrapParagraphs(paragraphs, i, result_lines, pad, content_width) ==
    IF i > Len(paragraphs) THEN result_lines
    ELSE IF paragraphs[i] = <<>>
    THEN WrapParagraphs(paragraphs, i + 1,
                        Append(result_lines, IF i > 1 THEN pad ELSE <<>>),
                        pad, content_width)
    ELSE LET w == WrapWords(SplitOn(paragraphs[i], " "), result_lines, <<>>, i = 1,
                            pad, content_width)
         IN  WrapParagraphs(paragraphs, i + 1,
                            IF w.current_line # <<>>
                            THEN PushLine(w.result_lines, i = 1, pad, w.current_line)
                            ELSE w.result_lines,
                            pad, content_width)

\* wrap_text
wrap_text(text, indent, width) ==
    IF width <= indent THEN text
    ELSE JoinWith(WrapParagraphs(SplitOn(text, Newline), 1, <<>>, Repeat(" ", indent),
                                 width - indent),
                  <<Newline>>)

\* format!("{}", n) of an integer of at most two digits
DecimalText(n) ==
    LET digit(d) == <<"0", "1", "2", "3", "4", "5", "6", "7", "8", "9">>[d + 1]
        magnitude == IF n < 0 THEN 0 - n ELSE n
        digits == IF magnitude < 10 THEN <<digit(magnitude)>>
                  ELSE <<digit(magnitude \div 10), digit(magnitude % 10)>>
    IN  IF n < 0 THEN <<"-">> \o digits ELSE digits

\* widgets.rs: struct MessageData with all its fields.  Texts are character
\* sequences, an Option<String> is <<>> or <<text>>, reactions is the set of the
\* map's (emoji, count) entries.
MessageRecord(msg_id, sender_id, sender_name, text, is_outgoing, timestamp, media_type, reactions, reply_to_msg_id) ==
    [msg_id |-> msg_id, sender_id |-> sender_id, sender_name |-> sender_name,
     text |-> text, is_outgoing |-> is_outgoing, timestamp |-> timestamp,
     media_type |-> media_type, media_label |-> <<>>, reactions |-> reactions,
     reply_to_msg_id |-> reply_to_msg_id, reply_sender |-> <<>>, reply_text |-> <<>>]

\* two emoji, both in the ranges strip_emojis removes
ThumbsUp == "<1f44d>"
Heart == "<2764>"

\* str::contains
contains(text, needle) ==
    \E i \in 1..(Len(text) - Len(needle) + 1) :
        SubSeq(text, i, i + Len(needle) - 1) = needle

\* str::replace with a non-empty pattern
RECURSIVE Replace(_, _, _)
Replace(text, from, to) ==
    IF Len(text) < Len(from) THEN text
    ELSE IF starts_with(text, from)
    THEN to \o Replace(SubSeq(text, Len(from) + 1, Len(text)), from, to)
    ELSE <<Head(text)>> \o Replace(Tail(text), from, to)

\* the number of characters from position i on that are not whitespace
RECURSIVE NonSpaceRun(_, _)
NonSpaceRun(text, i) ==
    IF i > Len(text) \/ text[i] \in {" ", Newline} THEN 0
    ELSE 1 + NonSpaceRun(text, i + 1)

\* the length of the match of `https?://[^\s]+` at position i, 0 for no match
UrlMatchLen(text, i) ==
    LET rest == SubSeq(text, i, Len(text))
        scheme == IF starts_with(rest, <<"h", "t", "t", "p", ":", "/", "/">>) THEN 7
                  ELSE IF starts_with(rest, <<"h", "t", "t", "p", "s", ":", "/", "/">>)
                  THEN 8 ELSE 0
        run == NonSpaceRun(text, i + scheme)
    IN  IF scheme = 0 \/ run = 0 THEN 0 ELSE scheme + run

\* url_regex.find_iter(text): the matches from position i on, left to right
RECURSIVE FindUrls(_, _)
FindUrls(text, i) ==
    IF i > Len(text) THEN <<>>
    ELSE IF UrlMatchLen(text, i) > 0
    THEN <<SubSeq(text, i, i + UrlMatchLen(text, i) - 1)>>
             \o FindUrls(text, i + UrlMatchLen(text, i))
    ELSE FindUrls(text, i + 1)

\* shorten_urls' loop over the matches
RECURSIVE ShortenEach(_, _, _)
ShortenEach(result, urls, max_len) ==
    IF urls = <<>> THEN result
    ELSE ShortenEach(IF Len(Head(urls)) > max_len
                     THEN Replace(result, Head(urls),
                                  SubSeq(Head(urls), 1, max_len) \o <<".", ".", ".">>)
                     ELSE result,
                     Tail(urls), max_len)

\* shorten_urls leaving every URL whole
shorten_urls_leaving_whole(text, max_len) == text

\* shorten_urls
shorten_urls(text, max_len) == ShortenEach(text, FindUrls(text, 1), max_len)

\* strip_emojis
strip_emojis(text) == SelectSeq(text, LAMBDA c : c \notin {ThumbsUp, Heart})

\* get_media_label(media_type, None)
get_media_label(media_type) ==
    CASE media_type = <<"p", "h", "o", "t", "o">> -> <<"[", "I", "M", "G", "]">>
      [] media_type = <<"v", "i", "d", "e", "o">> -> <<"[", "C", "L", "I", "P", "]">>
      [] media_type = <<"g", "i", "f">> -> <<"[", "G", "I", "F", "]">>
      [] OTHER -> <<"[">>
                    \o [i \in 1..Len(media_type) |->
                           IF position(LowerCase, media_type[i]) >= 0
                           THEN UpperCase[position(LowerCase, media_type[i]) + 1]
                           ELSE media_type[i]]
                    \o <<"]">>

\* chrono: seconds in a day, and the local date, hour and minute of a Unix
\* timestamp (the local offset taken as 0)
SecondsPerDay == 24 * 60 * 60

\* format_timestamp taking the short form only within the same minute as now.
format_timestamp_same_minute(timestamp, now) ==
    LET date == timestamp \div SecondsPerDay
        hour == (timestamp % SecondsPerDay) \div 3600
        minute == (timestamp % 3600) \div 60
    IN  IF timestamp \div 60 = now \div 60
        THEN [date |-> <<>>, hour |-> hour, minute |-> minute, len |-> 5]
        ELSE [date |-> <<date>>, hour |-> hour, minute |-> minute, len |-> 16]

\* format_timestamp, `now` being what Local::now() returns during the call.  The
\* text is given by its fields: "%H:%M" has no date and 5 characters,
\* "%Y-%m-%d %H:%M" has the date and 16.  (timestamp_opt has a single result for
\* every timestamp of the model.)
format_timestamp(timestamp, now) ==
    LET date == timestamp \div SecondsPerDay
        hour == (timestamp % SecondsPerDay) \div 3600
        minute == (timestamp % 3600) \div 60
    IN  IF date = now \div SecondsPerDay
        THEN [date |-> <<>>, hour |-> hour, minute |-> minute, len |-> 5]
        ELSE [date |-> <<date>>, hour |-> hour, minute |-> minute, len |-> 16]

\* format_reactions' loop; `iteration` is the order in which reactions.iter()
\* yields the entries
RECURSIVE ReactionParts(_)
ReactionParts(iteration) ==
    IF iteration = <<>> THEN <<>>
    ELSE <<IF Head(iteration).count > 1
           THEN DecimalText(Head(iteration).count) \o <<"x", Head(iteration).emoji>>
           ELSE <<Head(iteration).emoji>>>>
         \o ReactionParts(Tail(iteration))

\* format_reactions
format_reactions(iteration) ==
    IF iteration = <<>> THEN <<>> ELSE JoinWith(ReactionParts(iteration), <<" ">>)

\* the display line String::new()
BlankLine == [kind |-> "blank"]

\* `first_line.chars().count() > n` truncation of the first line of a quoted text
QuotedFirstLine(text, show_emojis, n) ==
    LET rt == IF ~show_emojis THEN strip_emojis(text) ELSE text
        first_line == Head(SplitOn(rt, Newline))
    IN  IF Len(first_line) > n THEN SubSeq(first_line, 1, n) \o <<".", ".", ".">>
        ELSE first_line

\* aliases.get(&sender_id).cloned().unwrap_or_else(|| sender_name.clone());
\* aliases is a function from the aliased sender ids
ResolvedSender(aliases, data) ==
    IF data.sender_id \in DOMAIN aliases THEN aliases[data.sender_id]
    ELSE data.sender_name

\* msg_data.iter().find(|m| &m.msg_id == reply_to_id): <<>> or <<message>>
RECURSIVE FindMessage(_, _, _)
FindMessage(msg_data, msg_id, i) ==
    IF i > Len(msg_data) THEN <<>>
    ELSE IF msg_data[i].msg_id = msg_id THEN <<msg_data[i]>>
    ELSE FindMessage(msg_data, msg_id, i + 1)

\* the "  ↳ Reply to ..." line of a message that is a reply, as a sequence of
\* zero or one lines
ReplyLines(msg_data, data, show_emojis, aliases) ==
    IF data.reply_to_msg_id = None THEN <<>>
    ELSE LET original_msg == FindMessage(msg_data, data.reply_to_msg_id, 1)
         IN  IF original_msg # <<>>
             THEN <<[kind |-> "reply", to_me |-> original_msg[1].is_outgoing,
                     sender |-> ResolvedSender(aliases, original_msg[1]),
                     text |-> QuotedFirstLine(original_msg[1].text, show_emojis, 50)]>>
             ELSE IF data.reply_sender # <<>> /\ data.reply_text # <<>>
             THEN <<[kind |-> "reply", to_me |-> FALSE, sender |-> data.reply_sender[1],
                     text |-> QuotedFirstLine(data.reply_text[1], show_emojis, 50)]>>
             ELSE <<[kind |-> "reply to message", msg_id |-> data.reply_to_msg_id]>>

\* reactions.iter(): the entries of the map in the order the hash map yields
\* them, `iteration` listing the emoji in that order
Iterate(reactions, iteration) ==
    LET present == SelectSeq(iteration, LAMBDA emoji : \E e \in reactions : e.emoji = emoji)
    IN  [i \in 1..Len(present) |-> CHOOSE e \in reactions : e.emoji = present[i]]

\* The body of format_messages_for_display's loop for the message at idx
\* (0-based): the lines it pushes.  A line is given by the values its format
\* string interpolates: the message line by its parts (num_str and timestamp
\* are <<>> when not shown), the wrapped text with its line breaks.
MessageLines(msg_data, idx, width, compact_mode, show_emojis, show_reactions, show_timestamps, show_line_numbers, unread_count, aliases, now, iteration) ==
    LET data == msg_data[idx + 1]
        unread_marker == IF unread_count > 0
                            /\ idx = saturating_sub(Len(msg_data), unread_count)
                         THEN <<[kind |-> "unread", marker |-> width \div 2,
                                 unread_count |-> unread_count]>>
                         ELSE <<>>
        media_label == IF data.media_type # <<>> THEN get_media_label(data.media_type[1])
                       ELSE IF data.media_label # <<>> THEN data.media_label[1]
                       ELSE <<>>
        sender_name == ResolvedSender(aliases, data)
        timestamp == format_timestamp(data.timestamp, now)
        num_str == <<"#">> \o DecimalText(idx + 1)
        prefix_len == ByteLen(sender_name) + 2
                      + (IF show_line_numbers THEN Len(num_str) + 1 ELSE 0)
                      + (IF show_timestamps THEN timestamp.len + 1 ELSE 0)
        shortened == shorten_urls(data.text, 60)
        wrapped == wrap_text(IF ~show_emojis THEN strip_emojis(shortened) ELSE shortened,
                             prefix_len, width)
        text == IF data.text # <<>>
                THEN IF media_label # <<>> THEN media_label \o <<" ">> \o wrapped
                     ELSE wrapped
                ELSE media_label
        reactions_suffix ==
            IF show_reactions /\ data.reactions # {}
            THEN <<" ", "[">> \o format_reactions(Iterate(data.reactions, iteration))
                     \o <<"]">>
            ELSE <<>>
        msg_line == [kind |-> "message",
                     num_str |-> IF show_line_numbers THEN <<num_str>> ELSE <<>>,
                     timestamp |-> IF show_timestamps THEN <<timestamp>> ELSE <<>>,
                     reply_arrow |-> data.reply_to_msg_id # None,
                     is_outgoing |-> data.is_outgoing,
                     sender_id |-> data.sender_id,
                     sender_name |-> sender_name,
                     text |-> text,
                     reactions_suffix |-> reactions_suffix]
    IN  IF data.text = <<>> /\ media_label = <<>> THEN unread_marker
        ELSE unread_marker
                 \o ReplyLines(msg_data, data, show_emojis, aliases)
                 \o <<msg_line>>
                 \o (IF ~compact_mode THEN <<BlankLine>> ELSE <<>>)

\* format_messages_for_display's loop `for (idx, data) in msg_data.iter().enumerate()`
\* from idx on
RECURSIVE FormatFrom(_, _, _, _, _, _, _, _, _, _, _, _)
FormatFrom(msg_data, idx, width, compact_mode, show_emojis, show_reactions, show_timestamps, show_line_numbers, unread_count, aliases, now, iteration) ==
    IF idx >= Len(msg_data) THEN <<>>
    ELSE MessageLines(msg_data, idx, width, compact_mode, show_emojis, show_reactions,
                      show_timestamps, show_line_numbers, unread_count, aliases, now,
                      iteration)
             \o FormatFrom(msg_data, idx + 1, width, compact_mode, show_emojis,
                           show_reactions, show_timestamps, show_line_numbers,
                           unread_count, aliases, now, iteration)

\* format_messages_for_display with the unread marker pushed before the loop
format_messages_for_display_marker_first(msg_data, width, compact_mode, show_emojis, show_reactions, show_timestamps, show_line_numbers, filter_type, filter_value, unread_count, aliases, now, iteration) ==
    (IF filter_type # None
     THEN <<[kind |-> "filter", filter_type |-> filter_type,
             filter_value |-> IF filter_value = <<>> THEN <<>> ELSE filter_value[1]],
            BlankLine>>
     ELSE <<>>)
        \o (IF unread_count > 0 /\ msg_data # <<>>
            THEN <<[kind |-> "unread", marker |-> width \div 2,
                    unread_count |-> unread_count]>>
            ELSE <<>>)
        \o FormatFrom(msg_data, 0, width, compact_mode, show_emojis, show_reactions,
                      show_timestamps, show_line_numbers, 0, aliases, now, iteration)

\* format_messages_for_display; besides its parameters, what the call reads from
\* its environment: the clock (`now`) and the iteration order of the reaction
\* maps (`iteration`).  filter_type is None or the type's name, filter_value
\* <<>> or <<text>>.
format_messages_for_display(msg_data, width, compact_mode, show_emojis, show_reactions, show_timestamps, show_line_numbers, filter_type, filter_value, unread_count, aliases, now, iteration) ==
    (IF filter_type # None
     THEN <<[kind |-> "filter", filter_type |-> filter_type,
             filter_value |-> IF filter_value = <<>> THEN <<>> ELSE filter_value[1]],
            BlankLine>>
     ELSE <<>>)
        \o FormatFrom(msg_data, 0, width, compact_mode, show_emojis, show_reactions,
                      show_timestamps, show_line_numbers, unread_count, aliases, now,
                      iteration)

\* widgets.rs: ChatPane::_message_matches_filter (no caller in the source)
message_matches_filter(filter_type, filter_value, data) ==
    IF filter_type = None THEN TRUE
    ELSE IF filter_type = "Sender" /\ filter_value # <<>>
    THEN contains(to_lowercase(data.sender_name), to_lowercase(filter_value[1]))
    ELSE IF filter_type = "Media" /\ filter_value # <<>>
    THEN IF filter_value[1] \in {<<"p", "h", "o", "t", "o">>, <<"v", "i", "d", "e", "o">>,
                                 <<"a", "u", "d", "i", "o">>, <<"v", "o", "i", "c", "e">>,
                                 <<"d", "o", "c", "u", "m", "e", "n", "t">>,
                                 <<"s", "t", "i", "c", "k", "e", "r">>, <<"g", "i", "f">>}
         THEN data.media_type = filter_value
         ELSE data.media_type # <<>>
    ELSE IF filter_type = "Link"
    THEN contains(data.text, <<"h", "t", "t", "p", ":", "/", "/">>)
             \/ contains(data.text, <<"h", "t", "t", "p", "s", ":", "/", "/">>)
    ELSE TRUE

\* app.rs, draw_chat_pane_impl: the name of the pane's filter type handed to
\* the formatter
filter_type_name(filter_type) ==
    CASE filter_type = "Sender" -> "sender"
      [] filter_type = "Media" -> "media"
      [] filter_type = "Link" -> "link"
      [] OTHER -> None

\* app.rs, draw_chat_pane_impl: the formatter called on a pane's msg_data, filter
\* and unread_count_at_load with the App's display flags and aliases
display_lines(pane, width, flags, aliases, now, iteration) ==
    format_messages_for_display(pane.msg_data, width, flags.compact_mode,
                                flags.show_emojis, flags.show_reactions,
                                flags.show_timestamps, flags.show_line_numbers,
                                filter_type_name(pane.filter_type), pane.filter_value,
                                pane.unread_count_at_load, aliases, now, iteration)

\* ------------------------------------------------ commands.rs: Command
Space == " "

\* str::split_whitespace, from character i on, `word` being the word under way
RECURSIVE SplitFrom(_, _, _)
SplitFrom(text, i, word) ==
    IF i > Len(text) THEN (IF word = <<>> THEN <<>> ELSE <<word>>)
    ELSE IF text[i] = Space
    THEN (IF word = <<>> THEN <<>> ELSE <<word>>) \o SplitFrom(text, i + 1, <<>>)
    ELSE SplitFrom(text, i + 1, Append(word, text[i]))

split_whitespace(text) == SplitFrom(text, 1, <<>>)

\* Command::parse: <<>> for None, else <<[name, args]>>
Command_parse(text) ==
    IF ~starts_with(text, <<"/">>) THEN <<>>
    ELSE LET parts == split_whitespace(text)
         IN  IF parts = <<>> THEN <<>>
             ELSE <<[name |-> Tail(parts[1]), args |-> Tail(parts)]>>

\* [String]::join(" ")
RECURSIVE join(_)
join(words) ==
    IF words = <<>> THEN <<>>
    ELSE IF Len(words) = 1 THEN words[1]
    ELSE words[1] \o <<Space>> \o join(Tail(words))

\* the value of a decimal digit, -1 for any other character
DigitValue(c) ==
    CASE c = "0" -> 0 [] c = "1" -> 1 [] c = "2" -> 2 [] c = "3" -> 3 [] c = "4" -> 4
      [] c = "5" -> 5 [] c = "6" -> 6 [] c = "7" -> 7 [] c = "8" -> 8 [] c = "9" -> 9
      [] OTHER -> 0 - 1

\* the number a sequence of digits writes, most significant first
RECURSIVE DigitsValue(_)
DigitsValue(digits) ==
    IF digits = <<>> THEN 0
    ELSE 10 * DigitsValue(SubSeq(digits, 1, Len(digits) - 1))
         + DigitValue(digits[Len(digits)])

\* str::trim_start_matches('#')
RECURSIVE trim_start_hash(_)
trim_start_hash(word) ==
    IF word # <<>> /\ Head(word) = "#" THEN trim_start_hash(Tail(word)) ELSE word

\* str::parse::<i32>: <<>> for Err, else <<n>>; an optional sign, then digits only,
\* the value within the range of i32
parse_i32(word) ==
    LET signed == word # <<>> /\ Head(word) \in {"+", "-"}
        digits == IF signed THEN Tail(word) ELSE word
        value == IF signed /\ Head(word) = "-" THEN 0 - DigitsValue(digits)
                 ELSE DigitsValue(digits)
    IN  IF digits = <<>> \/ \E i \in 1..Len(digits) : DigitValue(digits[i]) < 0
        THEN <<>>
        ELSE IF value < 0 - 2147483647 - 1 \/ value > 2147483647 THEN <<>>
        ELSE <<value>>

\* `cmd.args[0].trim_start_matches('#').parse()`
parse_msg_num(args) == parse_i32(trim_start_hash(args[1]))

\* msg_data.get without the `- 1`: the message number taken as the 0-based index.
msg_data_get_zero_based(pane, msg_num) ==
    IF msg_num >= 0 /\ msg_num < Len(pane.msg_data)
    THEN <<pane.msg_data[msg_num + 1]>> ELSE <<>>

\* pane.msg_data.get((msg_num - 1) as usize): <<>> for None; a msg_num below 1
\* casts to an index past the end (msg_num - 1 itself overflows for i32::MIN
\* only, a number no command line of the specifications holds)
msg_data_get(pane, msg_num) ==
    IF msg_num >= 1 /\ msg_num <= Len(pane.msg_data)
    THEN <<pane.msg_data[msg_num]>> ELSE <<>>

\* ----------------------------------------- commands.rs: CommandHandler
\* A handler is a function from the part of the App it may change,
\* st = [panes, chats, status_message, failed, calls], and the backend's answers
\* `be` to that part afterwards; `failed` is set when the handler returns Err and
\* `calls` lists the calls to app.whatsapp the handler has made, in order.
\* Notification texts and status lines are given by their format strings,
\* without the leading check mark or cross.
AppPart == [panes |-> panes, chats |-> chats, status_message |-> status_message,
            failed |-> FALSE, calls |-> <<>>]

\* App::notify, on st
Notify(st, message) == [st EXCEPT !.status_message = message]

\* `app.whatsapp.<op>(<args>).await`: the call is made
Call(st, op, args) == [st EXCEPT !.calls = Append(@, [op |-> op, args |-> args])]

\* `tokio::spawn(async move { let _ = whatsapp.<op>(<args>).await; })`: the call is
\* handed to a background task, which the handler does not wait for
Spawn(st, op, args) ==
    [st EXCEPT !.calls = Append(@, [op |-> op, args |-> args, spawned |-> TRUE])]

\* the calls among `calls` that were handed to background tasks
Spawned(calls) == SelectSeq(calls, LAMBDA c : "spawned" \in DOMAIN c)

\* `if let Some(pane) = app.panes.get_mut(pane_idx) { pane.add_message(line) }`
AddMessage(st, pane_idx, line) ==
    IF HasPane(st.panes, pane_idx)
    THEN [st EXCEPT !.panes[pane_idx + 1].messages = Append(@, line)]
    ELSE st

\* App::open_chat_in_pane
open_chat_in_pane(st, pane_idx, chat_id, be) ==
    LET msg_data == IF be.messages.ok THEN be.messages.value ELSE <<>>
        opened == IF HasPane(st.panes, pane_idx)
                  THEN [st.panes EXCEPT ![pane_idx + 1] =
                           [@ EXCEPT !.chat_id = <<chat_id>>,
                                     !.msg_data = msg_data,
                                     !.messages = <<>>,
                                     !.reply_to_message = None,
                                     !.reply_preview = None,
                                     !.scroll_offset = 0,
                                     !.format_cache = {}]]
                  ELSE st.panes
    IN  [Call(st, "get_messages", <<chat_id>>)
            EXCEPT !.panes = opened, !.chats = ClearUnread(st.chats, chat_id)]

\* CommandHandler::handle_reply
handle_reply(st, cmd, pane_idx, be) ==
    IF cmd.args = <<>> \/ parse_msg_num(cmd.args) = <<>>
    THEN Notify(st, "Usage: /reply N [text]")
    ELSE IF ~HasPane(st.panes, pane_idx) THEN st
    ELSE LET msg_num == parse_msg_num(cmd.args)[1]
             pane == PaneAt(st.panes, pane_idx)
             target == msg_data_get(pane, msg_num)
         IN  IF Len(cmd.args) > 1
             THEN IF pane.chat_id = <<>> THEN st
                  ELSE IF target = <<>>
                  THEN AddMessage(st, pane_idx, "Message #{} not found")
                  ELSE LET called == Call(st, "reply_to_message",
                                          <<pane.chat_id[1], target[1].msg_id,
                                            join(Tail(cmd.args))>>)
                       IN  IF be.op_ok
                           THEN AddMessage(called, pane_idx, "Replied to #{}")
                           ELSE AddMessage(called, pane_idx, "Reply failed: {}")
             ELSE IF target = <<>>
             THEN AddMessage(st, pane_idx, "Message #{} not found")
             ELSE Notify(
                    [st EXCEPT !.panes[pane_idx + 1].reply_to_message = target[1].msg_id,
                               !.panes[pane_idx + 1].reply_preview = "Reply to #{}: {}"],
                    "Replying to message #{}. Type your reply.")

\* CommandHandler::handle_media
handle_media(st, cmd, pane_idx, be) ==
    IF cmd.args = <<>> THEN Notify(st, "Usage: /media N or /m N")
    ELSE IF parse_msg_num(cmd.args) = <<>> THEN Notify(st, "Usage: /media N")
    ELSE IF ~HasPane(st.panes, pane_idx) THEN Notify(st, "Pane not found")
    ELSE IF PaneAt(st.panes, pane_idx).chat_id = <<>> THEN Notify(st, "No chat selected")
    ELSE IF msg_data_get(PaneAt(st.panes, pane_idx), parse_msg_num(cmd.args)[1]) = <<>>
    THEN Notify(st, "Message #{} not found")
    ELSE LET pane == PaneAt(st.panes, pane_idx)
             called == Call(st, "download_media_by_id",
                            <<pane.chat_id[1],
                              msg_data_get(pane, parse_msg_num(cmd.args)[1])[1].msg_id>>)
         IN  IF be.op_ok THEN Notify(called, "ok: {}")
             ELSE Notify(called, "failed: {}")

\* the shape shared by handle_edit and handle_delete: a message number, a backend
\* call `op` on the numbered message (with the joined rest of the arguments when
\* the command takes a text), a status line and a notification
numbered_message_command(st, cmd, pane_idx, be, min_args, usage, op, done_line,
                         done_note, failed_line, failed_note) ==
    IF Len(cmd.args) < min_args \/ parse_msg_num(cmd.args) = <<>>
    THEN Notify(st, usage)
    ELSE IF ~HasPane(st.panes, pane_idx) \/ PaneAt(st.panes, pane_idx).chat_id = <<>>
    THEN st
    ELSE IF msg_data_get(PaneAt(st.panes, pane_idx), parse_msg_num(cmd.args)[1]) = <<>>
    THEN AddMessage(st, pane_idx, "Message #{} not found")
    ELSE LET pane == PaneAt(st.panes, pane_idx)
             msg_id == msg_data_get(pane, parse_msg_num(cmd.args)[1])[1].msg_id
             called == Call(st, op,
                            IF min_args > 1
                            THEN <<pane.chat_id[1], msg_id, join(Tail(cmd.args))>>
                            ELSE <<pane.chat_id[1], msg_id>>)
         IN  IF be.op_ok
             THEN Notify(AddMessage(called, pane_idx, done_line), done_note)
             ELSE Notify(AddMessage(called, pane_idx, failed_line), failed_note)

\* CommandHandler::handle_edit
handle_edit(st, cmd, pane_idx, be) ==
    numbered_message_command(st, cmd, pane_idx, be, 2, "Usage: /edit N new_text",
        "edit_message",
        "Edited message #{}", "Message edited", "Edit failed: {}", "Edit failed: {}")

\* CommandHandler::handle_delete (the command /delete, not the Delete key)
handle_delete_command(st, cmd, pane_idx, be) ==
    numbered_message_command(st, cmd, pane_idx, be, 1, "Usage: /delete N",
        "delete_message",
        "Deleted message #{}", "Message deleted", "Delete failed: {}", "Delete failed: {}")

\* CommandHandler::handle_alias; be.save_ok is the result of aliases.save
handle_alias(st, cmd, pane_idx, be) ==
    IF Len(cmd.args) < 2 \/ parse_msg_num(cmd.args) = <<>>
    THEN Notify(st, "Usage: /alias N name")
    ELSE IF ~HasPane(st.panes, pane_idx) \/ PaneAt(st.panes, pane_idx).chat_id = <<>>
    THEN st
    ELSE IF msg_data_get(PaneAt(st.panes, pane_idx), parse_msg_num(cmd.args)[1]) = <<>>
    THEN AddMessage(st, pane_idx, "Message #{} not found")
    ELSE IF ~be.save_ok THEN [st EXCEPT !.failed = TRUE]
    ELSE Notify(AddMessage(st, pane_idx, "Alias set: {}"), "Alias set: {}")

\* CommandHandler::handle_unalias; be.alias_known is whether the sender has an alias
handle_unalias(st, cmd, pane_idx, be) ==
    IF cmd.args = <<>> \/ parse_msg_num(cmd.args) = <<>>
    THEN Notify(st, "Usage: /unalias N")
    ELSE IF ~HasPane(st.panes, pane_idx) \/ PaneAt(st.panes, pane_idx).chat_id = <<>>
    THEN st
    ELSE IF msg_data_get(PaneAt(st.panes, pane_idx), parse_msg_num(cmd.args)[1]) = <<>>
    THEN AddMessage(st, pane_idx, "Message #{} not found")
    ELSE IF ~be.alias_known
    THEN Notify(AddMessage(st, pane_idx, "No alias found"), "No alias set for this user")
    ELSE IF ~be.save_ok THEN [st EXCEPT !.failed = TRUE]
    ELSE Notify(AddMessage(st, pane_idx, "Alias removed"), "Alias removed")

\* handle_filter's media_types table, in its order
media_types ==
    << <<<<"p", "h", "o", "t", "o">>, <<"p", "h", "o", "t", "o">>>>,
       <<<<"p", "h", "o", "t", "o", "s">>, <<"p", "h", "o", "t", "o">>>>,
       <<<<"v", "i", "d", "e", "o">>, <<"v", "i", "d", "e", "o">>>>,
       <<<<"v", "i", "d", "e", "o", "s">>, <<"v", "i", "d", "e", "o">>>>,
       <<<<"a", "u", "d", "i", "o">>, <<"a", "u", "d", "i", "o">>>>,
       <<<<"v", "o", "i", "c", "e">>, <<"v", "o", "i", "c", "e">>>>,
       <<<<"d", "o", "c">>, <<"d", "o", "c", "u", "m", "e", "n", "t">>>>,
       <<<<"d", "o", "c", "u", "m", "e", "n", "t">>, <<"d", "o", "c", "u", "m", "e", "n", "t">>>>,
       <<<<"d", "o", "c", "u", "m", "e", "n", "t", "s">>, <<"d", "o", "c", "u", "m", "e", "n", "t">>>>,
       <<<<"f", "i", "l", "e">>, <<"d", "o", "c", "u", "m", "e", "n", "t">>>>,
       <<<<"f", "i", "l", "e", "s">>, <<"d", "o", "c", "u", "m", "e", "n", "t">>>>,
       <<<<"l", "i", "n", "k">>, <<"l", "i", "n", "k">>>>,
       <<<<"l", "i", "n", "k", "s">>, <<"l", "i", "n", "k">>>>,
       <<<<"u", "r", "l">>, <<"l", "i", "n", "k">>>>,
       <<<<"s", "t", "i", "c", "k", "e", "r">>, <<"s", "t", "i", "c", "k", "e", "r">>>>,
       <<<<"s", "t", "i", "c", "k", "e", "r", "s">>, <<"s", "t", "i", "c", "k", "e", "r">>>>,
       <<<<"g", "i", "f">>, <<"g", "i", "f">>>>,
       <<<<"g", "i", "f", "s">>, <<"g", "i", "f">>>> >>

\* media_types.iter().find(|(k, _)| *k == filter_arg): <<>> or <<media_type>>
RECURSIVE FindMediaType(_, _)
FindMediaType(filter_arg, i) ==
    IF i > Len(media_types) THEN <<>>
    ELSE IF media_types[i][1] = filter_arg THEN <<media_types[i][2]>>
    ELSE FindMediaType(filter_arg, i + 1)

\* `if let Some(pane) = app.panes.get_mut(pane_idx)` setting the filter
SetFilter(st, pane_idx, filter_type, filter_value) ==
    IF HasPane(st.panes, pane_idx)
    THEN [st EXCEPT !.panes[pane_idx + 1] =
             [@ EXCEPT !.filter_type = filter_type,
                       !.filter_value = filter_value,
                       !.format_cache = {}]]
    ELSE st

\* CommandHandler::handle_filter
handle_filter(st, cmd, pane_idx, be) ==
    IF cmd.args = <<>>
    THEN IF ~HasPane(st.panes, pane_idx) THEN st
         ELSE IF PaneAt(st.panes, pane_idx).filter_type # None
         THEN Notify(st, "Current filter: {}={}")
         ELSE Notify(st, "Usage: /filter off | photo | video | audio | doc | link | <name>")
    ELSE LET filter_arg == to_lowercase(cmd.args[1])
             found == FindMediaType(filter_arg, 1)
         IN  IF filter_arg = <<"o", "f", "f">>
             THEN Notify(SetFilter(st, pane_idx, None, <<>>), "Filter disabled")
             ELSE IF found # <<>>
             THEN Notify(SetFilter(st, pane_idx,
                                   IF found[1] = <<"l", "i", "n", "k">> THEN "Link" ELSE "Media",
                                   found),
                         "Filtering: {} only")
             ELSE Notify(SetFilter(st, pane_idx, "Sender", <<join(cmd.args)>>),
                         "Filtering: messages from '{}'")

\* CommandHandler::handle_search; be.search is the answer of search_messages, its
\* results already in MessageData form (timestamp: the time of the search)
handle_search(st, cmd, pane_idx, be) ==
    IF cmd.args = <<>> THEN Notify(st, "Usage: /search <query> or /s <query>")
    ELSE IF ~HasPane(st.panes, pane_idx) THEN st
    ELSE IF PaneAt(st.panes, pane_idx).chat_id = <<>> THEN Notify(st, "Select a chat first")
    ELSE LET called == Call(st, "search_messages",
                            <<PaneAt(st.panes, pane_idx).chat_id[1], join(cmd.args)>>)
         IN  IF ~be.search.ok THEN Notify(called, "Search failed: {}")
             ELSE IF be.search.value = <<>> THEN Notify(called, "No results found")
             ELSE Notify([called EXCEPT !.panes[pane_idx + 1] =
                             [@ EXCEPT !.msg_data = be.search.value,
                                       !.scroll_offset = 0]],
                         "Found {} results")

\* CommandHandler::handle_new_chat; be.resolve is the answer of resolve_username,
\* Ok(<<>>) for Ok(None) and Ok(<<chat_id>>) for Ok(Some(..))
handle_new_chat(st, cmd, pane_idx, be) ==
    IF cmd.args = <<>> THEN Notify(st, "Usage: /new @username")
    ELSE LET called == Call(st, "resolve_username", <<cmd.args[1]>>)
         IN  IF ~be.resolve.ok THEN Notify(called, "Lookup failed: {}")
             ELSE IF be.resolve.value = <<>> THEN Notify(called, "User '{}' not found")
             ELSE open_chat_in_pane(Notify(called, "Looking up {}..."), pane_idx,
                                    be.resolve.value[1], be)

\* App::refresh_chats, on st: Ok replaces the list, Err leaves it
refresh_chats(st, be) ==
    LET called == Call(st, "get_dialogs", <<>>)
    IN  IF be.dialogs.ok THEN [called EXCEPT !.chats = be.dialogs.value]
        ELSE [called EXCEPT !.failed = TRUE]

\* CommandHandler::handle_new_group; the result of refresh_chats is dropped
handle_new_group(st, cmd, pane_idx, be) ==
    IF cmd.args = <<>> THEN Notify(st, "Usage: /newgroup <name>")
    ELSE IF ~be.create_group.ok
    THEN Notify(Call(st, "create_group", <<join(cmd.args)>>),
                "Failed to create group: {}")
    ELSE LET refreshed == [refresh_chats(Call(st, "create_group", <<join(cmd.args)>>), be)
                              EXCEPT !.failed = FALSE]
         IN  Notify(open_chat_in_pane(refreshed, pane_idx, be.create_group.value, be),
                    "Group '{}' created")

\* the shape shared by handle_add_member and handle_remove_member
member_command(st, cmd, pane_idx, be, usage, op, done_line, done_note, failed_note) ==
    IF cmd.args = <<>> THEN Notify(st, usage)
    ELSE IF ~HasPane(st.panes, pane_idx) THEN st
    ELSE IF PaneAt(st.panes, pane_idx).chat_id = <<>>
    THEN Notify(st, "Open a group chat first")
    ELSE LET called == Call(st, op, <<PaneAt(st.panes, pane_idx).chat_id[1], cmd.args[1]>>)
         IN  IF be.op_ok THEN Notify(AddMessage(called, pane_idx, done_line), done_note)
             ELSE Notify(called, failed_note)

\* CommandHandler::handle_add_member
handle_add_member(st, cmd, pane_idx, be) ==
    member_command(st, cmd, pane_idx, be, "Usage: /add @username", "add_member",
                   "Added {} to group", "{} added to group", "Failed to add {}: {}")

\* CommandHandler::handle_remove_member
handle_remove_member(st, cmd, pane_idx, be) ==
    member_command(st, cmd, pane_idx, be, "Usage: /kick @username or /remove @username",
                   "remove_member",
                   "Removed {} from group", "{} removed from group",
                   "Failed to remove {}: {}")

\* `for (id, name, role) in &members { pane.add_message(..) }`
RECURSIVE AddMemberLines(_, _)
AddMemberLines(lines, n) ==
    IF n = 0 THEN lines ELSE AddMemberLines(Append(lines, "  {} (id:{}) - {}"), n - 1)

\* CommandHandler::handle_members; be.members is the answer of get_members, its
\* value the number of members
handle_members(st, cmd, pane_idx, be) ==
    IF ~HasPane(st.panes, pane_idx) THEN st
    ELSE IF PaneAt(st.panes, pane_idx).chat_id = <<>>
    THEN Notify(st, "Open a group chat first")
    ELSE IF ~be.members.ok
    THEN Notify(Call(st, "get_members", <<PaneAt(st.panes, pane_idx).chat_id[1]>>),
                "Failed to load members: {}")
    ELSE Notify([Call(st, "get_members", <<PaneAt(st.panes, pane_idx).chat_id[1]>>)
                    EXCEPT !.panes[pane_idx + 1].messages =
                    Append(AddMemberLines(Append(@, "--- Members ({}) ---"),
                                          be.members.value), "---")],
                "{} members")

\* CommandHandler::handle_forward; be.op_ok is the result of forward_message
handle_forward(st, cmd, pane_idx, be) ==
    IF Len(cmd.args) < 2 THEN Notify(st, "Usage: /forward N @username or /fwd N @username")
    ELSE IF parse_msg_num(cmd.args) = <<>> THEN Notify(st, "Usage: /forward N @username")
    ELSE IF ~HasPane(st.panes, pane_idx) THEN st
    ELSE IF PaneAt(st.panes, pane_idx).chat_id = <<>> THEN Notify(st, "No chat selected")
    ELSE IF msg_data_get(PaneAt(st.panes, pane_idx), parse_msg_num(cmd.args)[1]) = <<>>
    THEN Notify(st, "Message #{} not found")
    ELSE LET pane == PaneAt(st.panes, pane_idx)
             resolved == Call(st, "resolve_username", <<cmd.args[2]>>)
             forwarded == Call(resolved, "forward_message",
                               <<pane.chat_id[1],
                                 msg_data_get(pane, parse_msg_num(cmd.args)[1])[1].msg_id,
                                 be.resolve.value[1]>>)
         IN  IF ~be.resolve.ok THEN Notify(resolved, "Lookup failed: {}")
             ELSE IF be.resolve.value = <<>> THEN Notify(resolved, "User '{}' not found")
             ELSE IF be.op_ok
             THEN Notify(AddMessage(forwarded, pane_idx, "Forwarded #{} to {}"),
                         "Forwarded to {}")
             ELSE Notify(forwarded, "Forward failed: {}")

\* CommandHandler::handle: [handled, st]; st.failed is its Err
CommandHandler_handle(st, text, pane_idx, be) ==
    LET parsed == Command_parse(text)
        cmd == parsed[1]
        done(after) == [handled |-> TRUE, st |-> after]
    IN  IF parsed = <<>> THEN [handled |-> FALSE, st |-> st]
        ELSE CASE cmd.name \in {<<"r", "e", "p", "l", "y">>, <<"r">>} ->
             done(handle_reply(st, cmd, pane_idx, be))
          [] cmd.name \in {<<"m", "e", "d", "i", "a">>, <<"m">>} ->
             done(handle_media(st, cmd, pane_idx, be))
          [] cmd.name \in {<<"e", "d", "i", "t">>, <<"e">>} ->
             done(handle_edit(st, cmd, pane_idx, be))
          [] cmd.name \in {<<"d", "e", "l", "e", "t", "e">>, <<"d", "e", "l">>, <<"d">>} ->
             done(handle_delete_command(st, cmd, pane_idx, be))
          [] cmd.name \in {<<"a", "l", "i", "a", "s">>} ->
             done(handle_alias(st, cmd, pane_idx, be))
          [] cmd.name \in {<<"u", "n", "a", "l", "i", "a", "s">>} ->
             done(handle_unalias(st, cmd, pane_idx, be))
          [] cmd.name \in {<<"f", "i", "l", "t", "e", "r">>} ->
             done(handle_filter(st, cmd, pane_idx, be))
          [] cmd.name \in {<<"s", "e", "a", "r", "c", "h">>, <<"s">>} ->
             done(handle_search(st, cmd, pane_idx, be))
          [] cmd.name \in {<<"n", "e", "w">>} ->
             done(handle_new_chat(st, cmd, pane_idx, be))
          [] cmd.name \in {<<"n", "e", "w", "g", "r", "o", "u", "p">>} ->
             done(handle_new_group(st, cmd, pane_idx, be))
          [] cmd.name \in {<<"a", "d", "d">>} ->
             done(handle_add_member(st, cmd, pane_idx, be))
          [] cmd.name \in {<<"k", "i", "c", "k">>, <<"r", "e", "m", "o", "v", "e">>} ->
             done(handle_remove_member(st, cmd, pane_idx, be))
          [] cmd.name \in {<<"m", "e", "m", "b", "e", "r", "s">>} ->
             done(handle_members(st, cmd, pane_idx, be))
          [] cmd.name \in {<<"f", "o", "r", "w", "a", "r", "d">>, <<"f", "w", "d">>, <<"f">>} ->
             done(handle_forward(st, cmd, pane_idx, be))
          [] OTHER -> [handled |-> FALSE, st |-> st]

\* ------------------------------------------------ app.rs: handle_enter
\* self.my_user_jid
my_user_jid == "me"

\* the length at which handle_enter drops the oldest history entry
HistoryCap == 100

\* handle_enter's history update: push unless equal to the last entry, cap
push_history(history, input_text) ==
    IF history = <<>> \/ history[Len(history)] # input_text
    THEN LET pushed == Append(history, input_text)
         IN  IF Len(pushed) > HistoryCap THEN Tail(pushed) ELSE pushed
    ELSE history

\* handle_enter with an empty input and the focus on a non-empty chat list: the chat
\* list is refreshed, then the selected chat is loaded into the focused pane.
\* Sets chats, panes and the outcome (pc).
open_selected_chat(be, returns, fails) ==
    \E refreshed \in refresh_chat_list_results(chats, panes, be.dialogs) :
        LET ordered_chats == chat_list_order(refreshed, panes)
            selected == selected_chat_idx < Len(ordered_chats)
            chat_idx == ordered_chats[selected_chat_idx + 1]
            chat_id == refreshed[chat_idx + 1].id
            found == FindChat(refreshed, chat_id)
        IN  IF ~selected \/ chat_idx >= Len(refreshed)
            THEN chats' = refreshed /\ UNCHANGED panes /\ returns
            ELSE IF ~be.messages.ok
            THEN chats' = refreshed /\ UNCHANGED panes /\ fails
            ELSE IF ~HasPane(panes, focused_pane_idx)
            THEN chats' = refreshed /\ UNCHANGED panes /\ returns
            ELSE /\ panes' = [panes EXCEPT ![focused_pane_idx + 1] =
                         [@ EXCEPT !.chat_id = <<chat_id>>,
                                   !.msg_data = sort_by_timestamp(be.messages.value),
                                   !.messages = <<>>,
                                   !.reply_to_message = None,
                                   !.reply_preview = None,
                                   !.scroll_offset = 0,
                                   !.unread_count_at_load =
                                       IF found = 0 THEN @ ELSE refreshed[found].unread]]
                 /\ chats' = ClearUnread(refreshed, chat_id)
                 /\ returns

\* handle_enter's send: the message is appended to the pane and the input reset at
\* once, then the backend call is spawned (its result is dropped); nothing happens
\* without a chat
send_input(st, pane_idx, input_text, now) ==
    LET pane == PaneAt(st.panes, pane_idx)
        new_msg(reply_to) == MessageData("", my_user_jid, input_text, TRUE, now, reply_to)
    IN  IF ~HasPane(st.panes, pane_idx) \/ pane.chat_id = <<>> THEN st
        ELSE IF pane.reply_to_message # None
        THEN Spawn([st EXCEPT !.panes[pane_idx + 1] =
                       [@ EXCEPT !.msg_data = Append(@, new_msg(pane.reply_to_message)),
                                 !.format_cache = {},
                                 !.reply_to_message = None,
                                 !.reply_preview = None,
                                 !.input_buffer = <<>>,
                                 !.input_cursor = 0]],
                   "reply_to_message",
                   <<pane.chat_id[1], pane.reply_to_message, input_text>>)
        ELSE Spawn([st EXCEPT !.panes[pane_idx + 1] =
                       [@ EXCEPT !.msg_data = Append(@, new_msg(None)),
                                 !.format_cache = {},
                                 !.input_buffer = <<>>,
                                 !.input_cursor = 0]],
                   "send_message", <<pane.chat_id[1], input_text>>)

\* submit_input with the backend call awaited before the pane is touched: the
\* message is shown and the input reset only when the backend accepted it
submit_input_awaiting_send(be) ==
    LET input_text == FocusedPane.input_buffer
        command == IF starts_with(input_text, <<"/">>)
                   THEN CommandHandler_handle(AppPart, input_text, focused_pane_idx, be)
                   ELSE [handled |-> FALSE, st |-> AppPart]
    IN  IF command.st.failed THEN command.st
        ELSE IF command.handled
        THEN [command.st EXCEPT !.panes[focused_pane_idx + 1] =
                 [@ EXCEPT !.input_buffer = <<>>, !.input_cursor = 0]]
        ELSE LET sent == send_input(command.st, focused_pane_idx, input_text, be.now)
             IN  IF be.op_ok THEN sent ELSE [command.st EXCEPT !.calls = sent.calls]

\* handle_enter with a non-empty input and the focus on a pane: history, then
\* the command or the send.  [st, failed]
submit_input(be) ==
    LET input_text == FocusedPane.input_buffer
        command == IF starts_with(input_text, <<"/">>)
                   THEN CommandHandler_handle(AppPart, input_text, focused_pane_idx, be)
                   ELSE [handled |-> FALSE, st |-> AppPart]
    IN  IF command.st.failed THEN command.st
        ELSE IF command.handled
        THEN [command.st EXCEPT !.panes[focused_pane_idx + 1] =
                 [@ EXCEPT !.input_buffer = <<>>, !.input_cursor = 0]]
        ELSE send_input(command.st, focused_pane_idx, input_text, be.now)

\* App::handle_enter; `returns` and `fails` are what the caller does on Ok and Err
handle_enter(be, returns, fails) ==
    LET input_empty == IF HasPane(panes, focused_pane_idx)
                       THEN FocusedPane.input_buffer = <<>> ELSE TRUE
    IN  IF input_empty
        THEN /\ IF focus_on_chat_list /\ chats # <<>>
                THEN open_selected_chat(be, returns, fails)
                ELSE UNCHANGED <<chats, panes>> /\ returns
             /\ UNCHANGED <<status_message, input_vars>>
        ELSE IF ~focus_on_chat_list
        THEN LET after == submit_input(be)
             IN  /\ input_history' = push_history(input_history, FocusedPane.input_buffer)
                 /\ history_idx' = 0 - 1
                 /\ history_temp' = <<>>
                 /\ panes' = after.panes
                 /\ chats' = after.chats
                 /\ status_message' = after.status_message
                 /\ IF after.failed THEN fails ELSE returns
        ELSE UNCHANGED <<chats, panes, status_message, input_vars>> /\ returns

\* the background tasks handle_enter starts
spawned_by_enter(be) ==
    IF HasPane(panes, focused_pane_idx) /\ FocusedPane.input_buffer # <<>>
       /\ ~focus_on_chat_list
    THEN Spawned(submit_input(be).calls)
    ELSE <<>>

\* ------------------------------------- app.rs: process_whatsapp_events
\* WhatsAppUpdate::NewMessage, with the fields the handler reads
NewMessage(chat_jid, is_outgoing) == [chat_jid |-> chat_jid, is_outgoing |-> is_outgoing]

\* App::refresh_chat_list on st with its result dropped (`let _ = ...`): the
\* states it may leave
refresh_chat_list_on(st, be) ==
    {[st EXCEPT !.chats = cs] :
        cs \in refresh_chat_list_results(st.chats, st.panes, be.dialogs)}

\* `chat_info.unread += 1` on the first chat with that id
IncrementUnread(cs, chat_id) ==
    LET i == FindChat(cs, chat_id)
    IN  IF i = 0 THEN cs ELSE [cs EXCEPT ![i].unread = @ + 1]

\* a reload that appends the reloaded messages to the pane's list
ReloadPanes_appending(ps, chat_jid, msg_data) ==
    [i \in 1..Len(ps) |->
        IF ps[i].chat_id = <<chat_jid>>
        THEN [ps[i] EXCEPT !.msg_data = @ \o msg_data, !.format_cache = {},
                           !.scroll_offset = 0]
        ELSE ps[i]]

\* the panes showing chat_jid get the reloaded messages
ReloadPanes(ps, chat_jid, msg_data) ==
    [i \in 1..Len(ps) |->
        IF ps[i].chat_id = <<chat_jid>>
        THEN [ps[i] EXCEPT !.msg_data = msg_data, !.format_cache = {},
                           !.scroll_offset = 0]
        ELSE ps[i]]

\* the NewMessage handler without `chat_info.unread += 1`
process_update_without_increment(st, update, be) ==
    IF update.is_outgoing THEN {st}
    ELSE IF \E i \in 1..Len(st.panes) : st.panes[i].chat_id = <<update.chat_jid>>
    THEN refresh_chat_list_on(
             IF be.messages.ok
             THEN [st EXCEPT !.panes = ReloadPanes(st.panes, update.chat_jid,
                                           sort_by_timestamp(be.messages.value))]
             ELSE st,
             be)
    ELSE {IF FindChat(after.chats, update.chat_jid) # 0
          THEN Notify(after, "{}: {}") ELSE after :
            after \in refresh_chat_list_on(st, be)}

\* one iteration of process_whatsapp_events' loop, for a NewMessage: the states it
\* may leave
process_update(st, update, be) ==
    IF update.is_outgoing THEN {st}
    ELSE IF \E i \in 1..Len(st.panes) : st.panes[i].chat_id = <<update.chat_jid>>
    THEN refresh_chat_list_on(
             IF be.messages.ok
             THEN [st EXCEPT !.panes = ReloadPanes(st.panes, update.chat_jid,
                                           sort_by_timestamp(be.messages.value))]
             ELSE st,
             be)
    ELSE {IF FindChat(after.chats, update.chat_jid) # 0
          THEN Notify(after, "{}: {}") ELSE after :
            after \in refresh_chat_list_on(
                [st EXCEPT !.chats = IncrementUnread(st.chats, update.chat_jid)], be)}

\* `for update in updates { ... }`
RECURSIVE process_updates(_, _, _)
process_updates(st, updates, be) ==
    IF updates = <<>> THEN {st}
    ELSE UNION {process_updates(after, Tail(updates), be) :
                    after \in process_update(st, Head(updates), be)}

\* ------------------------------------------------ app.rs: display toggles
\* App::refresh_all_pane_displays
refresh_all_pane_displays(ps) ==
    [i \in 1..Len(ps) |-> [ps[i] EXCEPT !.format_cache = {}]]

\* the common shape of the toggle_* methods: flip the flag, notify "<label>: ON" or
\* "<label>: OFF", and for the flags that change how messages are formatted
\* refresh_all_pane_displays
toggle(flag, label_on, label_off, refreshes) ==
    /\ settings' = [settings EXCEPT ![flag] = ~@]
    /\ notify(IF settings'[flag] THEN label_on ELSE label_off)
    /\ panes' = IF refreshes THEN refresh_all_pane_displays(panes) ELSE panes

toggle_reactions == toggle("show_reactions", "Reactions: ON", "Reactions: OFF", TRUE)

toggle_notifications ==
    toggle("show_notifications", "Desktop notifications: ON",
           "Desktop notifications: OFF", FALSE)

toggle_compact == toggle("compact_mode", "Compact mode: ON", "Compact mode: OFF", TRUE)

toggle_emojis == toggle("show_emojis", "Emojis: ON", "Emojis: OFF", TRUE)

toggle_line_numbers ==
    toggle("show_line_numbers", "Line numbers: ON", "Line numbers: OFF", TRUE)

toggle_timestamps == toggle("show_timestamps", "Timestamps: ON", "Timestamps: OFF", TRUE)

toggle_chat_list == toggle("show_chat_list", "Chat list: ON", "Chat list: OFF", FALSE)

toggle_user_colors ==
    toggle("show_user_colors", "User colors: ON", "User colors: OFF", TRUE)

toggle_borders == toggle("show_borders", "Borders: ON", "Borders: OFF", FALSE)

\* ------------------------------------------------ app.rs: mouse clicks
\* The part of the App a mouse click reads and writes.
ClickPart ==
    [panes |-> panes, chats |-> chats, status_message |-> status_message,
     failed |-> FALSE, focused_pane_idx |-> focused_pane_idx,
     focus_on_chat_list |-> focus_on_chat_list,
     selected_chat_idx |-> selected_chat_idx, calls |-> <<>>]

\* the rows of one group in handle_chat_list_click's row_map: a header (None, <<>>)
\* then one row per chat (Some(chat_idx), <<chat_idx>>); nothing for an empty group
group_rows(group) ==
    IF group = <<>> THEN <<>>
    ELSE <<<<>>>> \o [i \in 1..Len(group) |-> <<group[i]>>]

\* handle_chat_list_click's row_map
row_map(cs, ps) ==
    group_rows(chat_list_group(cs, ps, "unread"))
        \o group_rows(chat_list_group(cs, ps, "active"))
        \o group_rows(chat_list_group(cs, ps, "other"))

\* the open of the clicked chat followed by `self.focus_on_chat_list = false`
open_clicked_chat_leaving_list(st, chat_id, refreshed, be) ==
    LET ordered_chats == chat_list_order(refreshed, st.panes)
        found == FindChat(refreshed, chat_id)
        matches == {k \in 1..Len(ordered_chats) :
                       /\ ordered_chats[k] < Len(refreshed)
                       /\ refreshed[ordered_chats[k] + 1].id = chat_id}
        ordered_idx == (CHOOSE k \in matches : \A other \in matches : k <= other) - 1
        pane_idx == st.focused_pane_idx
        opened == IF HasPane(st.panes, pane_idx)
                  THEN [st EXCEPT !.panes[pane_idx + 1] =
                           [@ EXCEPT !.chat_id = <<chat_id>>,
                                     !.msg_data = sort_by_timestamp(be.messages.value),
                                     !.messages = <<>>,
                                     !.reply_to_message = None,
                                     !.reply_preview = None,
                                     !.scroll_offset = 0],
                                  !.chats = ClearUnread(refreshed, chat_id),
                                  !.focus_on_chat_list = FALSE]
                  ELSE [st EXCEPT !.chats = refreshed]
    IN  IF found = 0 THEN [st EXCEPT !.chats = refreshed]
        ELSE IF ~be.messages.ok THEN [st EXCEPT !.chats = refreshed, !.failed = TRUE]
        ELSE IF matches = {} THEN opened
        ELSE [opened EXCEPT !.selected_chat_idx = ordered_idx]

\* handle_chat_list_click once the clicked chat is known and the chat list has been
\* refreshed to `refreshed`: the chat is looked up again by id, its messages are
\* fetched (`?`), the focused pane is switched to it and the selection follows
open_clicked_chat(st, chat_id, refreshed, be) ==
    LET ordered_chats == chat_list_order(refreshed, st.panes)
        found == FindChat(refreshed, chat_id)
        matches == {k \in 1..Len(ordered_chats) :
                       /\ ordered_chats[k] < Len(refreshed)
                       /\ refreshed[ordered_chats[k] + 1].id = chat_id}
        ordered_idx == (CHOOSE k \in matches : \A other \in matches : k <= other) - 1
        pane_idx == st.focused_pane_idx
        opened == IF HasPane(st.panes, pane_idx)
                  THEN [st EXCEPT !.panes[pane_idx + 1] =
                           [@ EXCEPT !.chat_id = <<chat_id>>,
                                     !.msg_data = sort_by_timestamp(be.messages.value),
                                     !.messages = <<>>,
                                     !.reply_to_message = None,
                                     !.reply_preview = None,
                                     !.scroll_offset = 0],
                                  !.chats = ClearUnread(refreshed, chat_id)]
                  ELSE [st EXCEPT !.chats = refreshed]
    IN  IF found = 0 THEN [st EXCEPT !.chats = refreshed]
        ELSE IF ~be.messages.ok THEN [st EXCEPT !.chats = refreshed, !.failed = TRUE]
        ELSE IF matches = {} THEN opened
        ELSE [opened EXCEPT !.selected_chat_idx = ordered_idx]

\* App::handle_chat_list_click for a click on row y of a chat-list rectangle of
\* `height` rows (y counted from the rectangle's top): the states it may leave
handle_chat_list_click(st, y, height, be) ==
    LET border_offset == IF settings.show_borders THEN 1 ELSE 0
        relative_y == y - border_offset
        rows == row_map(st.chats, st.panes)
    IN  IF y < border_offset \/ y >= height - border_offset THEN {st}
        ELSE IF relative_y >= Len(rows) THEN {st}
        ELSE IF rows[relative_y + 1] = <<>> THEN {st}
        ELSE IF rows[relative_y + 1][1] >= Len(st.chats) THEN {st}
        ELSE {open_clicked_chat(st, st.chats[rows[relative_y + 1][1] + 1].id,
                                refreshed, be) :
                 refreshed \in refresh_chat_list_results(st.chats, st.panes, be.dialogs)}

\* handle_mouse_click without its call of mark_pane_chat_read
handle_mouse_click_without_mark_read(st, clicked) ==
    IF clicked = <<>> THEN st
    ELSE [st EXCEPT !.focused_pane_idx = clicked[1],
                    !.focus_on_chat_list = FALSE]

\* App::handle_mouse_click; `clicked` is <<pane_idx>> for the pane of pane_areas
\* whose rectangle holds the click, <<>> when no rectangle does
handle_mouse_click(st, clicked) ==
    IF clicked = <<>> THEN st
    ELSE [st EXCEPT !.focused_pane_idx = clicked[1],
                    !.focus_on_chat_list = FALSE,
                    !.chats = mark_pane_chat_read_chats(st.chats, st.panes, clicked[1]),
                    !.panes = mark_pane_chat_read_panes(st.panes, clicked[1])]

\* App::refresh_pane_messages: a non-empty answer replaces the pane's messages
\* (unsorted) and clears its cache; an error or an empty answer changes nothing
refresh_pane_messages(st, pane_idx, be) ==
    IF ~HasPane(st.panes, pane_idx) THEN st
    ELSE IF PaneAt(st.panes, pane_idx).chat_id = <<>> THEN st
    ELSE IF ~be.messages.ok THEN st
    ELSE IF be.messages.value = <<>> THEN st
    ELSE [st EXCEPT !.panes[pane_idx + 1] =
             [@ EXCEPT !.msg_data = be.messages.value, !.format_cache = {}]]

\* App::load_pane_messages_if_needed
load_pane_messages_if_needed(st, pane_idx, be) ==
    IF ~HasPane(st.panes, pane_idx) THEN st
    ELSE IF PaneAt(st.panes, pane_idx).chat_id = <<>> THEN st
    ELSE IF PaneAt(st.panes, pane_idx).msg_data # <<>> THEN st
    ELSE refresh_pane_messages(st, pane_idx, be)

\* ------------------------------------------------ main.rs: run_app's loop
\* One iteration of the loop is: draw if needs_redraw ("draw"), the 5 s chat-list
\* timer ("refresh"), the 500 ms message timer ("poll"), then at most one terminal
\* event ("event").  run_app has returned when pc is "exited" (Ctrl+Q) or "error"
\* (a `?` propagated an Err).
Running == ~panicked /\ pc \in {"draw", "refresh", "poll", "event"}

\* the leaves PaneNode::render gives a rectangle: those with a slot in the pane array
RenderedPanes(node, ps) ==
    {get_pane_indices(node)[i] : i \in 1..Len(get_pane_indices(node))}
        \cap {idx \in 0..(Len(ps) - 1) : TRUE}

\* App::draw, its effect on the App: status expiry, then pane_areas rebuilt.
\* `expired` is whether status_expire has passed.
draw(expired) ==
    /\ status_message' = IF expired THEN None ELSE status_message
    /\ pane_areas' = RenderedPanes(pane_tree, panes)
    /\ chat_list_area' = settings.show_chat_list

\* the draw step without `app.needs_redraw = false`
Draw_without_clearing ==
    /\ Running /\ pc = "draw"
    /\ IF needs_redraw
       THEN \E expired \in BOOLEAN :
                 /\ (expired => status_message # None)
                 /\ draw(expired)
       ELSE UNCHANGED <<status_message, pane_areas, chat_list_area>>
    /\ UNCHANGED needs_redraw
    /\ pc' = "refresh"
    /\ UNCHANGED <<layout_vars, chats, selected_chat_idx, input_vars, settings,
                   panicked>>

\* `if app.needs_redraw { terminal.draw(..); app.needs_redraw = false; }`
Draw ==
    /\ Running /\ pc = "draw"
    /\ IF needs_redraw
       THEN /\ \E expired \in BOOLEAN :
                 /\ (expired => status_message # None)
                 /\ draw(expired)
            /\ needs_redraw' = FALSE
       ELSE UNCHANGED <<status_message, pane_areas, chat_list_area, needs_redraw>>
    /\ pc' = "refresh"
    /\ UNCHANGED <<layout_vars, chats, selected_chat_idx, input_vars, settings,
                   panicked>>

\* the 5 s timer has not elapsed
SkipRefresh ==
    /\ Running /\ pc = "refresh"
    /\ pc' = "poll"
    /\ UNCHANGED <<layout_vars, status_message, chats, selected_chat_idx, pane_areas, chat_list_area,
                   needs_redraw, input_vars, settings, panicked>>

\* the 500 ms timer has not elapsed
SkipPoll ==
    /\ Running /\ pc = "poll"
    /\ pc' = "event"
    /\ UNCHANGED <<layout_vars, status_message, chats, selected_chat_idx, pane_areas, chat_list_area,
                   needs_redraw, input_vars, settings, panicked>>

\* event::poll timed out: no terminal event in this iteration
NoEvent ==
    /\ Running /\ pc = "event"
    /\ pc' = "draw"
    /\ UNCHANGED <<layout_vars, status_message, chats, selected_chat_idx, pane_areas, chat_list_area,
                   needs_redraw, input_vars, settings, panicked>>

\* the 5 s timer has elapsed: refresh_chat_list with its result dropped, get_dialogs
\* answering one of `Dialogs`
PeriodicRefresh(Dialogs) ==
    /\ Running /\ pc = "refresh"
    /\ \E dialogs \in Dialogs : chats' \in refresh_chat_list_results(chats, panes, dialogs)
    /\ needs_redraw' = TRUE
    /\ pc' = "poll"
    /\ UNCHANGED <<layout_vars, status_message, selected_chat_idx, pane_areas, chat_list_area,
                   input_vars, settings, panicked>>

\* the 500 ms timer has elapsed: process_whatsapp_events on the pending `updates`
\* (poll_updates always answers Ok)
PollUpdates(updates, Answers) ==
    /\ Running /\ pc = "poll"
    /\ \E be \in Answers : \E after \in process_updates(AppPart, updates, be) :
            /\ panes' = after.panes
            /\ chats' = after.chats
            /\ status_message' = after.status_message
    /\ needs_redraw' = (needs_redraw \/ updates # <<>>)
    /\ pc' = "event"
    /\ UNCHANGED <<layout_vars_but_panes, selected_chat_idx, pane_areas, chat_list_area, input_vars,
                   settings, panicked>>

\* `Event::Key(key) => { app.needs_redraw = true; match ... }`: the frame of a key
\* (KeyEvent), and the frame of a key whose handler cannot fail (Key)
KeyEvent ==
    /\ Running /\ pc = "event"
    /\ needs_redraw' = TRUE

\* the handler returned Ok (or returns nothing): on to the next iteration
Returns == pc' = "draw"

\* the handler returned Err and `?` ends run_app
Fails == pc' = "error"

Key == KeyEvent /\ Returns

\* Ctrl+V
KeySplitVertical ==
    /\ Key /\ Len(panes) < MaxPanes
    /\ split_vertical
    /\ UNCHANGED <<status_message, chats, selected_chat_idx, pane_areas, chat_list_area, input_vars,
                   settings, panicked>>

\* Ctrl+B
KeySplitHorizontal ==
    /\ Key /\ Len(panes) < MaxPanes
    /\ split_horizontal
    /\ UNCHANGED <<status_message, chats, selected_chat_idx, pane_areas, chat_list_area, input_vars,
                   settings, panicked>>

\* Ctrl+K
KeyToggleSplit ==
    /\ Key
    /\ toggle_split_direction
    /\ UNCHANGED <<panes, focused_pane_idx, focus_on_chat_list, chats,
                   selected_chat_idx, pane_areas, chat_list_area, input_vars, settings, panicked>>

\* Ctrl+W
KeyClosePane ==
    /\ Key
    /\ close_pane
    /\ UNCHANGED <<panes, focus_on_chat_list, chats, selected_chat_idx, pane_areas, chat_list_area,
                   input_vars, settings, panicked>>

\* Tab
KeyTab ==
    /\ Key
    /\ handle_tab
    /\ UNCHANGED <<pane_tree, status_message, selected_chat_idx, pane_areas, chat_list_area,
                   input_vars, settings, panicked>>

\* Shift+Tab: cycle_focus_reverse when the chat list has the focus or the focused
\* pane's input is empty, nothing otherwise
KeyBackTab ==
    /\ Key
    /\ IF focus_on_chat_list
          \/ (IF HasPane(panes, focused_pane_idx)
              THEN FocusedPane.input_buffer = <<>> ELSE TRUE)
       THEN cycle_focus_reverse
       ELSE UNCHANGED <<focus_on_chat_list, focused_pane_idx, chats, panes>>
    /\ UNCHANGED <<pane_tree, status_message, selected_chat_idx, pane_areas, chat_list_area,
                   input_vars, settings, panicked>>

\* Alt+Right
KeyAltRight ==
    /\ Key
    /\ focus_next_pane
    /\ UNCHANGED <<pane_tree, status_message, selected_chat_idx, pane_areas, chat_list_area,
                   input_vars, settings, panicked>>

\* Alt+Left
KeyAltLeft ==
    /\ Key
    /\ focus_prev_pane
    /\ UNCHANGED <<pane_tree, status_message, selected_chat_idx, pane_areas, chat_list_area,
                   input_vars, settings, panicked>>

\* a character key: typed into the focused pane unless the chat list has the focus
KeyChar(c) ==
    /\ Key
    /\ IF ~focus_on_chat_list THEN handle_char(c)
       ELSE UNCHANGED <<panes, history_idx, panicked>>
    /\ UNCHANGED <<pane_tree, focused_pane_idx, focus_on_chat_list, status_message,
                   chats, selected_chat_idx, pane_areas, chat_list_area, input_history, history_temp,
                   settings>>

\* the frame of the editing keys that only act when a pane has the focus
EditKey(handler) ==
    /\ Key
    /\ IF ~focus_on_chat_list THEN handler
       ELSE UNCHANGED <<panes, history_idx, panicked>>
    /\ UNCHANGED <<pane_tree, focused_pane_idx, focus_on_chat_list, status_message,
                   chats, selected_chat_idx, pane_areas, chat_list_area, input_history, history_temp,
                   settings>>

KeyBackspace == EditKey(handle_backspace)

KeyDelete == EditKey(handle_delete)

KeyLeft == EditKey(handle_input_left)

KeyRight == EditKey(handle_input_right)

KeyHome == EditKey(handle_home)

KeyEnd == EditKey(handle_end)

\* Up
KeyUp ==
    /\ Key
    /\ handle_up
    /\ UNCHANGED <<layout_vars_but_panes, status_message, chats, pane_areas, chat_list_area,
                   input_history, settings, panicked>>

\* Down
KeyDown ==
    /\ Key
    /\ handle_down
    /\ UNCHANGED <<layout_vars_but_panes, status_message, chats, pane_areas, chat_list_area,
                   input_history, settings, panicked>>

\* Enter, the backend answering with one of `Answers`
KeyEnter(Answers) ==
    /\ KeyEvent
    /\ \E be \in Answers : handle_enter(be, Returns, Fails)
    /\ UNCHANGED <<layout_vars_but_panes, selected_chat_idx, pane_areas, chat_list_area, settings,
                   panicked>>

\* Ctrl+L
KeyClearPane ==
    /\ Key
    /\ clear_pane
    /\ UNCHANGED <<layout_vars_but_panes, status_message, chats, selected_chat_idx,
                   pane_areas, chat_list_area, input_vars, settings, panicked>>

\* Esc clearing reply_to_message without hide_reply_preview
KeyEsc_keeping_preview ==
    /\ Key
    /\ IF HasPane(panes, focused_pane_idx) /\ FocusedPane.reply_to_message # None
       THEN panes' = [panes EXCEPT ![focused_pane_idx + 1].reply_to_message = None]
       ELSE UNCHANGED panes
    /\ UNCHANGED <<layout_vars_but_panes, status_message, chats, selected_chat_idx,
                   pane_areas, chat_list_area, input_vars, settings, panicked>>

\* Esc: leave reply mode
KeyEsc ==
    /\ Key
    /\ IF HasPane(panes, focused_pane_idx) /\ FocusedPane.reply_to_message # None
       THEN panes' = [panes EXCEPT ![focused_pane_idx + 1] =
                        [@ EXCEPT !.reply_to_message = None, !.reply_preview = None]]
       ELSE UNCHANGED panes
    /\ UNCHANGED <<layout_vars_but_panes, status_message, chats, selected_chat_idx,
                   pane_areas, chat_list_area, input_vars, settings, panicked>>

\* Ctrl+R: `app.refresh_chats().await?`
KeyRefreshChats(Dialogs) ==
    /\ KeyEvent
    /\ \E dialogs \in Dialogs :
          LET after == refresh_chats(AppPart, [dialogs |-> dialogs])
          IN  chats' = after.chats /\ (IF after.failed THEN Fails ELSE Returns)
    /\ UNCHANGED <<layout_vars, status_message, selected_chat_idx, pane_areas, chat_list_area,
                   input_vars, settings, panicked>>

\* the frame of the Ctrl keys that call a toggle_* method
ToggleKey(toggle_method) ==
    /\ Key
    /\ toggle_method
    /\ UNCHANGED <<layout_vars_but_panes, chats, selected_chat_idx, pane_areas,
                   chat_list_area, input_vars, panicked>>

\* Ctrl+E
KeyToggleReactions == ToggleKey(toggle_reactions)

\* Ctrl+N
KeyToggleNotifications == ToggleKey(toggle_notifications)

\* Ctrl+D
KeyToggleCompact == ToggleKey(toggle_compact)

\* Ctrl+O
KeyToggleEmojis == ToggleKey(toggle_emojis)

\* Ctrl+G
KeyToggleLineNumbers == ToggleKey(toggle_line_numbers)

\* Ctrl+T
KeyToggleTimestamps == ToggleKey(toggle_timestamps)

\* Ctrl+S
KeyToggleChatList == ToggleKey(toggle_chat_list)

\* Ctrl+U
KeyToggleUserColors == ToggleKey(toggle_user_colors)

\* Ctrl+Y
KeyToggleBorders == ToggleKey(toggle_borders)

\* what a left click can hit: row y of the chat list's rectangle (when the last
\* draw showed the chat list), the rectangle of a pane, or neither; the rectangles
\* of a frame do not overlap
ClickTargets(height) ==
    {[list_row |-> <<y>>, pane |-> <<>>] : y \in {r \in 0..(height - 1) : chat_list_area}}
        \cup {[list_row |-> <<>>, pane |-> <<p>>] : p \in pane_areas}
        \cup {[list_row |-> <<>>, pane |-> <<>>]}

\* the App after a click's handlers
Clicked(after) ==
    /\ panes' = after.panes
    /\ chats' = after.chats
    /\ status_message' = after.status_message
    /\ focused_pane_idx' = after.focused_pane_idx
    /\ focus_on_chat_list' = after.focus_on_chat_list
    /\ selected_chat_idx' = after.selected_chat_idx

\* `Event::Mouse` with the left button down on `target`: handle_chat_list_click
\* (`?`) when the click is in the chat list, then handle_mouse_click, then
\* load_pane_messages_if_needed for the focused pane.  `height` is the height of
\* the chat list's rectangle; the backend answers each handler with one of `Answers`.
MouseLeftDownAt(target, height, Answers) ==
    /\ Running /\ pc = "event"
    /\ needs_redraw' = TRUE
    /\ \E be \in Answers : \E load \in Answers :
          \E on_list \in (IF target.list_row = <<>> THEN {ClickPart}
                          ELSE handle_chat_list_click(ClickPart, target.list_row[1],
                                                      height, be)) :
              IF on_list.failed THEN Clicked(on_list) /\ Fails
              ELSE LET on_pane == handle_mouse_click(on_list, target.pane)
                   IN  /\ Clicked(load_pane_messages_if_needed(
                                      on_pane, on_pane.focused_pane_idx, load))
                       /\ Returns
    /\ UNCHANGED <<pane_tree, pane_areas, chat_list_area, input_vars, settings, panicked>>

\* a left click anywhere on the screen
MouseLeftDown(height, Answers) ==
    \E target \in ClickTargets(height) : MouseLeftDownAt(target, height, Answers)

\* `Event::Mouse(mouse)` of any other kind (a move, a scroll, another button):
\* `app.needs_redraw = true` and nothing else
MouseOther ==
    /\ Running /\ pc = "event"
    /\ needs_redraw' = TRUE
    /\ Returns
    /\ UNCHANGED <<layout_vars, status_message, chats, selected_chat_idx, pane_areas,
                   chat_list_area, input_vars, settings, panicked>>

\* `Event::Resize(_, _) => { app.needs_redraw = true; }`
Resize ==
    /\ Running /\ pc = "event"
    /\ needs_redraw' = TRUE
    /\ Returns
    /\ UNCHANGED <<layout_vars, status_message, chats, selected_chat_idx, pane_areas,
                   chat_list_area, input_vars, settings, panicked>>

\* ------------------------------------------------------------ App::new
\* The display flags of AppSettings::default().
DefaultSettings ==
    [show_reactions |-> TRUE, show_notifications |-> TRUE, compact_mode |-> FALSE,
     show_emojis |-> TRUE, show_line_numbers |-> FALSE, show_timestamps |-> TRUE,
     show_chat_list |-> TRUE, show_user_colors |-> TRUE, show_borders |-> TRUE]

\* the layout App::new builds when the saved state has no pane tree and
\* `saved_panes` panes: Single(0) split vertically once per further pane
RECURSIVE saved_panes_tree(_)
saved_panes_tree(saved_panes) ==
    IF saved_panes <= 1 THEN new_single(0)
    ELSE split(saved_panes_tree(saved_panes - 1), Vertical, saved_panes - 1)

\* App::new, the backend listing `dialogs`, the saved state holding the default
\* settings, no pane tree, and `saved_panes` panes that had no chat, no filter
\* and the focus on pane 0 (a first start has saved_panes = 0)
AppNewWithSavedPanes(dialogs, saved_panes) ==
    /\ pane_tree = saved_panes_tree(saved_panes)
    /\ panes = [i \in 1..Max(saved_panes, 1) |-> ChatPane_new]
    /\ focused_pane_idx = 0
    /\ focus_on_chat_list = TRUE
    /\ status_message = None
    /\ chats = dialogs
    /\ selected_chat_idx = 0
    /\ pane_areas = {}
    /\ chat_list_area = FALSE
    /\ needs_redraw = TRUE
    /\ input_history = <<>>
    /\ history_idx = 0 - 1
    /\ history_temp = <<>>
    /\ settings = DefaultSettings
    /\ panicked = FALSE
    /\ pc = "draw"

\* the greatest element of a sequence of numbers, 0 for the empty sequence:
\* required_indices.iter().max().copied().unwrap_or(0)
MaxOf(s) == IF s = <<>> THEN 0 ELSE CHOOSE m \in {s[i] : i \in 1..Len(s)} : \A i \in 1..Len(s) : s[i] <= m

\* App::load_saved_chat_messages for one pane: a non-empty answer of get_messages
\* becomes the pane's messages, in the order received
load_saved_chat_messages(pane, be) ==
    IF pane.chat_id # <<>> /\ be.messages.ok /\ be.messages.value # <<>>
    THEN [pane EXCEPT !.msg_data = be.messages.value, !.format_cache = {}]
    ELSE pane

\* App::new's pane tree, panes and focused pane for a saved layout: the saved tree
\* (or, without one, a row of the saved panes), a pane for every index up to the
\* greatest leaf and for every saved pane, the saved focused pane if there is a
\* pane of that index and pane 0 otherwise
restored_layout(saved_tree, saved_chats, saved_focused, be) ==
    LET tree == IF saved_tree # <<>> THEN saved_tree[1]
                ELSE saved_panes_tree(Len(saved_chats))
        total_panes_needed ==
            Max(Max(MaxOf(get_pane_indices(tree)) + 1, Len(saved_chats)), 1)
    IN  [pane_tree |-> tree,
         panes |-> [i \in 1..total_panes_needed |->
                      IF i <= Len(saved_chats)
                      THEN load_saved_chat_messages(
                               [ChatPane_new EXCEPT !.chat_id = saved_chats[i]], be)
                      ELSE ChatPane_new],
         focused_pane_idx |->
             IF saved_focused < total_panes_needed THEN saved_focused ELSE 0]

\* App::new on the saved layout (saved_tree, saved_chats, saved_focused): the
\* Option of a pane tree, the chat_id of each saved pane (no filters, the default
\* settings) and the saved focused_pane; the backend lists `dialogs` and answers
\* get_messages as `be` says
AppNewWithLayout(dialogs, saved_tree, saved_chats, saved_focused, be) ==
    LET restored == restored_layout(saved_tree, saved_chats, saved_focused, be)
    IN  /\ pane_tree = restored.pane_tree
        /\ panes = restored.panes
        /\ focused_pane_idx = restored.focused_pane_idx
        /\ focus_on_chat_list = TRUE
        /\ status_message = None
        /\ chats = dialogs
        /\ selected_chat_idx = 0
        /\ pane_areas = {}
        /\ chat_list_area = FALSE
        /\ needs_redraw = TRUE
        /\ input_history = <<>>
        /\ history_idx = 0 - 1
        /\ history_temp = <<>>
        /\ settings = DefaultSettings
        /\ panicked = FALSE
        /\ pc = "draw"

\* App::new on a first start (no saved layout), the backend listing `dialogs`.
AppNew(dialogs) == AppNewWithSavedPanes(dialogs, 0)

\* the backend's answers to one handler: one Result per call it may make
BackendAnswers(dialogs, messages, search, resolve, create_group, members, op_ok,
               save_ok, alias_known, now) ==
    [dialogs |-> dialogs, messages |-> messages, search |-> search,
     resolve |-> resolve, create_group |-> create_group, members |-> members,
     op_ok |-> op_ok, save_ok |-> save_ok, alias_known |-> alias_known, now |-> now]

\* every backend call failing
Offline == BackendAnswers(Err, Err, Err, Err, Err, Err, FALSE, FALSE, FALSE, 0)

\* -------------------------------------------- the layout specification
\* The split keys, the focus keys and the loop, with no chats and no typing.
InitLayout == AppNew(<<>>) /\ script = "none"

\* the loop's steps and the keys, none of which is scripted
Unscripted(A) == A /\ UNCHANGED script

NextLayout ==
    \/ Unscripted(Draw)
    \/ Unscripted(SkipRefresh)
    \/ Unscripted(SkipPoll)
    \/ Unscripted(NoEvent)
    \/ Unscripted(KeySplitVertical)
    \/ Unscripted(KeySplitHorizontal)
    \/ Unscripted(KeyToggleSplit)
    \/ Unscripted(KeyClosePane)
    \/ Unscripted(KeyTab)
    \/ Unscripted(KeyBackTab)
    \/ Unscripted(KeyAltRight)
    \/ Unscripted(KeyAltLeft)

SpecLayout == InitLayout /\ [][NextLayout]_vars

\* ------------------------------------ the scripted call sequence on App
\* The App's layout and focus methods called directly, as the unit tests of
\* split_view.rs call PaneNode's: first any calls that build a layout ("build"),
\* then, from a state with the focus on the chat list, script.fwd calls of
\* cycle_focus ("fwd") followed by as many calls of cycle_focus_reverse ("bwd").
InitCycle == AppNew(<<>>) /\ script = [phase |-> "build", fwd |-> 0, left |-> 0]

no_layout_vars == <<status_message, chats, selected_chat_idx, pane_areas, chat_list_area, needs_redraw,
                    input_vars, settings, panicked, pc>>

CallSplitVertical ==
    /\ script.phase = "build" /\ Len(panes) < MaxPanes
    /\ split_vertical
    /\ UNCHANGED <<no_layout_vars, script>>

CallSplitHorizontal ==
    /\ script.phase = "build" /\ Len(panes) < MaxPanes
    /\ split_horizontal
    /\ UNCHANGED <<no_layout_vars, script>>

CallToggleSplitDirection ==
    /\ script.phase = "build"
    /\ toggle_split_direction
    /\ UNCHANGED <<panes, focused_pane_idx, focus_on_chat_list, chats, selected_chat_idx,
                   pane_areas, chat_list_area, needs_redraw, input_vars, settings, panicked, pc, script>>

CallClosePane ==
    /\ script.phase = "build"
    /\ close_pane
    /\ UNCHANGED <<panes, focus_on_chat_list, chats, selected_chat_idx,
                   pane_areas, chat_list_area, needs_redraw, input_vars, settings, panicked, pc, script>>

CallFocusNextPane ==
    /\ script.phase = "build"
    /\ focus_next_pane
    /\ UNCHANGED <<pane_tree, status_message, selected_chat_idx, pane_areas, chat_list_area, needs_redraw,
                   input_vars, settings, panicked, pc, script>>

CallFocusPrevPane ==
    /\ script.phase = "build"
    /\ focus_prev_pane
    /\ UNCHANGED <<pane_tree, status_message, selected_chat_idx, pane_areas, chat_list_area, needs_redraw,
                   input_vars, settings, panicked, pc, script>>

CallCycleFocus ==
    /\ script.phase = "build"
    /\ cycle_focus
    /\ UNCHANGED <<pane_tree, status_message, selected_chat_idx, pane_areas, chat_list_area, needs_redraw,
                   input_vars, settings, panicked, pc, script>>

StartCycle ==
    /\ script.phase = "build" /\ focus_on_chat_list
    /\ script' = [phase |-> "fwd", fwd |-> 0, left |-> 0]
    /\ UNCHANGED <<layout_vars, no_layout_vars>>

CycleForward ==
    /\ script.phase = "fwd" /\ script.fwd < MaxCycle
    /\ cycle_focus
    /\ script' = [script EXCEPT !.fwd = @ + 1]
    /\ UNCHANGED <<pane_tree, status_message, selected_chat_idx, pane_areas, chat_list_area, needs_redraw,
                   input_vars, settings, panicked, pc>>

TurnBack ==
    /\ script.phase = "fwd"
    /\ script' = [phase |-> "bwd", fwd |-> script.fwd, left |-> script.fwd]
    /\ UNCHANGED <<layout_vars, no_layout_vars>>

CycleBackward ==
    /\ script.phase = "bwd" /\ script.left > 0
    /\ cycle_focus_reverse
    /\ script' = [script EXCEPT !.left = @ - 1]
    /\ UNCHANGED <<pane_tree, status_message, selected_chat_idx, pane_areas, chat_list_area, needs_redraw,
                   input_vars, settings, panicked, pc>>

NextCycle ==
    \/ CallSplitVertical
    \/ CallSplitHorizontal
    \/ CallToggleSplitDirection
    \/ CallClosePane
    \/ CallFocusNextPane
    \/ CallFocusPrevPane
    \/ CallCycleFocus
    \/ StartCycle
    \/ CycleForward
    \/ TurnBack
    \/ CycleBackward

SpecCycle == InitCycle /\ [][NextCycle]_vars

\* --------------------------------------------- the typing specification
\* One pane, no chats, the backend offline: the user presses at most MaxKeys keys
\* (script counts the keys left), typing characters of InputAlphabet.
MaxKeys == 6

InputAlphabet == {"/", "r", EAcute}

InitInput == AppNew(<<>>) /\ script = MaxKeys

Pressed(A) == script > 0 /\ script' = script - 1 /\ A

InputDraw == Unscripted(Draw)
InputSkipRefresh == Unscripted(SkipRefresh)
InputSkipPoll == Unscripted(SkipPoll)
InputNoEvent == Unscripted(NoEvent)
PressTab == Pressed(KeyTab)
PressBackTab == Pressed(KeyBackTab)
PressChar == \E c \in InputAlphabet : Pressed(KeyChar(c))
PressBackspace == Pressed(KeyBackspace)
PressDelete == Pressed(KeyDelete)
PressLeft == Pressed(KeyLeft)
PressRight == Pressed(KeyRight)
PressHome == Pressed(KeyHome)
PressEnd == Pressed(KeyEnd)
PressUp == Pressed(KeyUp)
PressDown == Pressed(KeyDown)
PressEnter == Pressed(KeyEnter({Offline}))
PressClearPane == Pressed(KeyClearPane)

NextInput ==
    \/ InputDraw
    \/ InputSkipRefresh
    \/ InputSkipPoll
    \/ InputNoEvent
    \/ PressTab
    \/ PressBackTab
    \/ PressChar
    \/ PressBackspace
    \/ PressDelete
    \/ PressLeft
    \/ PressRight
    \/ PressHome
    \/ PressEnd
    \/ PressUp
    \/ PressDown
    \/ PressEnter
    \/ PressClearPane

SpecInput == InitInput /\ [][NextInput]_vars

\* ------------------------------------------ the chat-list specification
\* A restart with two saved panes, and a backend that knows two chats: a contact
\* with a phone JID, and a contact with a lid JID whom it lists under a phone number
\* (here the first contact's).  The backend reports 0 or 1 unread messages for the
\* first and 0 for the second; incoming messages are delivered while a chat's
\* counter is below MaxUnread.
MaxUnread == 1

PhoneChatId == Jid("1", "s.whatsapp.net")

LidChatId == Jid("7", "lid")

PhoneChat(unread) == ChatInfo(PhoneChatId, "B", unread)

LidChat(unread) == ChatInfo(LidChatId, "1", unread)

\* the lists get_dialogs may return: names are unique and no lid chat has the name
\* of a phone chat (get_dialogs drops those); the empty list stands for a failed
\* command as well
ChatDialogs ==
    {<<>>}
        \cup {<<PhoneChat(u)>> : u \in 0..1}
        \cup {<<LidChat(0)>>}
        \cup {<<PhoneChat(u), LidChat(0)>> : u \in 0..1}
        \cup {<<LidChat(0), PhoneChat(u)>> : u \in 0..1}

\* what get_messages returns for either chat
ChatMessages == <<MessageData("m1", "them", <<"h", "i">>, FALSE, 1, None)>>

\* get_dialogs' answers
ChatDialogResults == {Ok(d) : d \in ChatDialogs} \cup {Err}

\* the backend's answers to a handler: get_messages succeeds, or every call fails
ChatAnswers ==
    {BackendAnswers(dialogs, Ok(ChatMessages), Err, Err, Err, Err, FALSE, FALSE, FALSE, 0) :
        dialogs \in ChatDialogResults} \cup {Offline}

InitChats ==
    /\ \E d \in ChatDialogs : AppNewWithSavedPanes(d, 2)
    /\ script = "none"

ChatsDraw == Unscripted(Draw)
ChatsPeriodicRefresh == Unscripted(PeriodicRefresh(ChatDialogResults))
ChatsSkipRefresh == Unscripted(SkipRefresh)
ChatsSkipPoll == Unscripted(SkipPoll)
ChatsNoEvent == Unscripted(NoEvent)

\* one NewMessage is pending when the 500 ms timer fires (an outgoing one is
\* skipped before any backend call)
ChatsPollNewMessage ==
    \E chat_jid \in {PhoneChatId, LidChatId}, is_outgoing \in BOOLEAN :
        /\ \A i \in 1..Len(chats) : chats[i].id = chat_jid => chats[i].unread < MaxUnread
        /\ Unscripted(PollUpdates(<<NewMessage(chat_jid, is_outgoing)>>,
                                  IF is_outgoing THEN {Offline} ELSE ChatAnswers))

ChatsRefreshChats == Unscripted(KeyRefreshChats(ChatDialogResults))
ChatsTab == Unscripted(KeyTab)
ChatsBackTab == Unscripted(KeyBackTab)
ChatsAltRight == Unscripted(KeyAltRight)
ChatsAltLeft == Unscripted(KeyAltLeft)
ChatsUp == Unscripted(KeyUp)
ChatsDown == Unscripted(KeyDown)
ChatsEnter == Unscripted(KeyEnter(ChatAnswers))

NextChats ==
    \/ ChatsDraw
    \/ ChatsPeriodicRefresh
    \/ ChatsSkipRefresh
    \/ ChatsPollNewMessage
    \/ ChatsSkipPoll
    \/ ChatsNoEvent
    \/ ChatsRefreshChats
    \/ ChatsTab
    \/ ChatsBackTab
    \/ ChatsAltRight
    \/ ChatsAltLeft
    \/ ChatsUp
    \/ ChatsDown
    \/ ChatsEnter

SpecChats == InitChats /\ [][NextChats]_vars

\* ------------------------------------------ the message-view specification
\* One pane, one chat: the operations that change what the pane renders.  The
\* chat is opened from the chat list (Enter or a click) or with /new, its messages
\* are reloaded by a poll, replaced by /search, extended by a send, filtered by
\* /filter, and the display flags are toggled.
MaxRows == 4
MaxLines == 2
MaxMessages == 2

\* the lines typed into the pane
CacheLines ==
    {<<"/", "s", " ", "x">>, <<"/", "n", "e", "w", " ", "x">>,
     <<"/", "f", "i", "l", "t", "e", "r", " ", "x">>, <<"x">>}

CacheAlphabet == UNION {{line[i] : i \in 1..Len(line)} : line \in CacheLines}

\* search_messages' results
SearchResults == <<MessageData("m0", "them", <<"x">>, FALSE, 2, None)>>

\* the backend's answers: every call succeeds, or every call fails
CacheAnswers ==
    {BackendAnswers(Ok(<<PhoneChat(0)>>), Ok(ChatMessages), Ok(SearchResults),
                    Ok(<<PhoneChatId>>), Err, Err, FALSE, FALSE, FALSE, 2),
     Offline}

InitCache == AppNew(<<PhoneChat(1)>>) /\ script = "none"

\* every pane's input is the beginning of one of the lines
TypingALine(ps) ==
    \A i \in 1..Len(ps) : \E line \in CacheLines : starts_with(line, ps[i].input_buffer)

\* at most one display flag differs from its default
OneFlagToggled(flags) ==
    \A f, g \in DOMAIN flags :
        (flags[f] # DefaultSettings[f] /\ flags[g] # DefaultSettings[g]) => f = g

CacheDraw == Unscripted(Draw)
CacheSkipRefresh == Unscripted(SkipRefresh)
CacheSkipPoll == Unscripted(SkipPoll)
CacheNoEvent == Unscripted(NoEvent)

\* an incoming message for the chat
CachePollNewMessage ==
    /\ \A i \in 1..Len(chats) : chats[i].unread < MaxUnread
    /\ Unscripted(PollUpdates(<<NewMessage(PhoneChatId, FALSE)>>, CacheAnswers))

CacheTab == Unscripted(KeyTab) /\ TypingALine(panes')

\* a character of a line that can still be submitted, typed while the display flags
\* have their defaults and no notification is shown
CacheChar ==
    /\ settings = DefaultSettings /\ status_message = None
    /\ Len(input_history) < MaxLines
    /\ \E c \in CacheAlphabet : Unscripted(KeyChar(c)) /\ TypingALine(panes')

\* Enter: with nothing typed, or on a whole line, at most MaxLines of them, the
\* pane holding fewer than MaxMessages messages
CacheEnter ==
    /\ \A i \in 1..Len(panes) : Len(panes[i].msg_data) < MaxMessages
    /\ \A i \in 1..Len(panes) :
          \/ panes[i].input_buffer = <<>>
          \/ panes[i].input_buffer \in CacheLines /\ Len(input_history) < MaxLines
    /\ Unscripted(KeyEnter(CacheAnswers))

CacheClick == Unscripted(MouseLeftDown(MaxRows, CacheAnswers))

\* a display flag toggled between two lines
CacheToggle ==
    /\ \A i \in 1..Len(panes) : panes[i].input_buffer = <<>>
    /\ \/ KeyToggleReactions
       \/ KeyToggleNotifications
       \/ KeyToggleCompact
       \/ KeyToggleEmojis
       \/ KeyToggleLineNumbers
       \/ KeyToggleTimestamps
       \/ KeyToggleChatList
       \/ KeyToggleUserColors
       \/ KeyToggleBorders
    /\ OneFlagToggled(settings')
    /\ UNCHANGED script

NextCache ==
    \/ CacheDraw
    \/ CacheSkipRefresh
    \/ CacheSkipPoll
    \/ CacheNoEvent
    \/ CachePollNewMessage
    \/ CacheTab
    \/ CacheChar
    \/ CacheEnter
    \/ CacheClick
    \/ CacheToggle

SpecCache == InitCache /\ [][NextCache]_vars

\* ------------------------------------------ the commands specification
\* One chat of two messages, opened from the chat list, and command lines typed
\* into the pane: message numbers in range, past the end, zero and negative.
\* At most MaxCommands lines are submitted.
MaxCommands == 1

CommandLines ==
    {<<"/", "r", "e", "p", "l", "y", " ", "2", " ", "a", " ", " ", "b">>,
     <<"/", "r", " ", "3", " ", "a">>,
     <<"/", "d", "e", "l", "e", "t", "e", " ", "0">>,
     <<"/", "e", "d", "i", "t", " ", "-", "1", " ", "a">>,
     <<"/", "m", "e", "d", "i", "a", " ", "3">>,
     <<"/", "f", "w", "d", " ", "1", " ", "a">>}

CommandAlphabet == UNION {{line[i] : i \in 1..Len(line)} : line \in CommandLines}

\* get_messages' answer for the chat
CommandMessages ==
    <<MessageData("m1", "them", <<"h", "i">>, FALSE, 1, None),
      MessageData("m2", "them", <<"y", "o">>, FALSE, 2, None)>>

\* the backend's answers: the reads succeed, the operation on a message succeeds
\* or fails
CommandAnswers ==
    {BackendAnswers(Ok(<<PhoneChat(0)>>), Ok(CommandMessages), Err, Ok(<<PhoneChatId>>),
                    Err, Err, op_ok, TRUE, FALSE, 3) : op_ok \in BOOLEAN}

InitCommands == AppNew(<<PhoneChat(0)>>) /\ script = "none"

\* every pane's input is the beginning of one of the command lines
TypingACommand(ps) ==
    \A i \in 1..Len(ps) : \E line \in CommandLines : starts_with(line, ps[i].input_buffer)

CommandsDraw == Unscripted(Draw)
CommandsSkipRefresh == Unscripted(SkipRefresh)
CommandsSkipPoll == Unscripted(SkipPoll)
CommandsNoEvent == Unscripted(NoEvent)
CommandsTab == Unscripted(KeyTab)

CommandsChar ==
    /\ Len(input_history) < MaxCommands
    /\ \E c \in CommandAlphabet : Unscripted(KeyChar(c)) /\ TypingACommand(panes')

\* Enter: with nothing typed (opening the chat), or on a whole command line
CommandsEnter ==
    /\ \A i \in 1..Len(panes) :
          \/ panes[i].input_buffer = <<>>
          \/ panes[i].input_buffer \in CommandLines /\ Len(input_history) < MaxCommands
    /\ Unscripted(KeyEnter(CommandAnswers))

NextCommands ==
    \/ CommandsDraw
    \/ CommandsSkipRefresh
    \/ CommandsSkipPoll
    \/ CommandsNoEvent
    \/ CommandsTab
    \/ CommandsChar
    \/ CommandsEnter

SpecCommands == InitCommands /\ [][NextCommands]_vars

\* --------------------------------------------- the wrap_text specification
\* wrap_text called once on a text of at most MaxTextLen characters (ASCII, a
\* two-byte character, spaces and line breaks) with an indent of at most
\* MaxIndent and a width of at most MaxWidth.
MaxTextLen == 4
MaxIndent == 2
MaxWidth == 4

\* every variable but the script
app_vars == <<pane_tree, panes, focused_pane_idx, focus_on_chat_list, status_message,
              chats, selected_chat_idx, pane_areas, chat_list_area, needs_redraw,
              input_history, history_idx, history_temp, settings, panicked, pc>>

WrapAlphabet == {"a", EAcute, " ", Newline}

WrapTexts == UNION {[1..n -> WrapAlphabet] : n \in 0..MaxTextLen}

InitWrap ==
    /\ AppNew(<<>>)
    /\ script \in {[phase |-> "call", text |-> text, indent |-> indent, width |-> width,
                    wrapped |-> <<>>] :
                      text \in WrapTexts, indent \in 0..MaxIndent, width \in 0..MaxWidth}

WrapText ==
    /\ script.phase = "call"
    /\ script' = [script EXCEPT !.phase = "returned",
                                !.wrapped = wrap_text(script.text, script.indent,
                                                      script.width)]
    /\ UNCHANGED app_vars

NextWrap == WrapText

SpecWrap == InitWrap /\ [][NextWrap]_vars

\* ------------------------------------------- the formatter specification
\* The formatter called twice, as a render does, on the same pane: up to
\* MaxShown messages out of five (two photos, an empty message that is skipped,
\* a reply with a link and reactions, an outgoing text), a filter, display
\* flags, aliases; the clock may advance between the calls.
MaxShown == 3
FormatWidth == 20

\* 23:58:00 on day 0
LateEvening == 23 * 3600 + 58 * 60

\* what Local::now() may return: twice later the same evening, or after midnight
Clock == {LateEvening + 30, LateEvening + 90, LateEvening + 150}

Photo == <<"p", "h", "o", "t", "o">>

MessagePool ==
    {MessageRecord("m1", "a", <<"A", "l">>, <<>>, FALSE, LateEvening, <<Photo>>, {}, None),
     MessageRecord("m2", "b", <<"B", "o">>, <<"h", "i">>, FALSE, LateEvening, <<Photo>>,
                   {}, None),
     MessageRecord("m3", "a", <<"A", "l">>, <<>>, FALSE, LateEvening, <<>>, {}, None),
     MessageRecord("m4", "b", <<"B", "o">>, <<"h", "t", "t", "p", ":", "/", "/", "x">>,
                   FALSE, LateEvening, <<>>,
                   {[emoji |-> ThumbsUp, count |-> 2], [emoji |-> Heart, count |-> 1]},
                   "m1"),
     MessageRecord("m5", "me", <<"M", "e">>, <<"o", "k", " ", ThumbsUp>>, TRUE,
                   LateEvening, <<>>, {}, None)}

\* the message lists: no message twice
MessageLists ==
    {list \in UNION {[1..n -> MessagePool] : n \in 0..MaxShown} : NoDuplicates(list)}

Flags(compact_mode, show_emojis, show_reactions, show_timestamps, show_line_numbers) ==
    [compact_mode |-> compact_mode, show_emojis |-> show_emojis,
     show_reactions |-> show_reactions, show_timestamps |-> show_timestamps,
     show_line_numbers |-> show_line_numbers]

\* the default flags; line numbers; compact with line numbers and nothing else
FlagChoices ==
    {Flags(FALSE, TRUE, TRUE, TRUE, FALSE), Flags(FALSE, TRUE, TRUE, TRUE, TRUE),
     Flags(TRUE, FALSE, FALSE, FALSE, TRUE)}

\* the filters /filter sets
FilterChoices ==
    {[filter_type |-> None, filter_value |-> <<>>],
     [filter_type |-> "Sender", filter_value |-> <<<<"b", "O">>>>],
     [filter_type |-> "Media", filter_value |-> <<Photo>>],
     [filter_type |-> "Link", filter_value |-> <<<<"l", "i", "n", "k">>>>]}

AliasChoices == {[id \in {} |-> <<>>], [id \in {"b"} |-> <<"B", "e", "a">>]}

InitFormat ==
    /\ AppNew(<<>>)
    /\ script \in
         {[phase |-> "call",
           pane |-> [ChatPane_new EXCEPT !.msg_data = msg_data,
                                         !.filter_type = filter.filter_type,
                                         !.filter_value = filter.filter_value,
                                         !.unread_count_at_load = unread],
           flags |-> flags, aliases |-> aliases, iteration |-> iteration,
           now |-> 0, lines |-> <<>>, now_again |-> 0, lines_again |-> <<>>] :
             msg_data \in MessageLists, filter \in FilterChoices, unread \in 0..MaxUnread,
             flags \in FlagChoices, aliases \in AliasChoices,
             iteration \in Orderings({ThumbsUp, Heart})}

\* a render formats the pane
FormatMessages ==
    /\ script.phase = "call"
    /\ \E now \in Clock :
          script' = [script EXCEPT
                        !.phase = "returned",
                        !.now = now,
                        !.lines = display_lines(script.pane, FormatWidth, script.flags,
                                                script.aliases, now, script.iteration)]
    /\ UNCHANGED app_vars

\* a later render formats the same pane again
FormatAgain ==
    /\ script.phase = "returned"
    /\ \E now \in Clock :
          /\ now >= script.now
          /\ script' = [script EXCEPT
                           !.phase = "again",
                           !.now_again = now,
                           !.lines_again = display_lines(script.pane, FormatWidth,
                                                         script.flags, script.aliases,
                                                         now, script.iteration)]
    /\ UNCHANGED app_vars

NextFormat ==
    \/ FormatMessages
    \/ FormatAgain

SpecFormat == InitFormat /\ [][NextFormat]_vars

\* --------------------------------------------- the direct-call specification
\* The App's layout and focus methods called directly, at most MaxCalls of them;
\* script holds the name of the last call and the layout and focus it was made on.
MaxCalls == 6

\* the layout and focus a call is made on
Before ==
    [pane_tree |-> pane_tree, panes |-> panes, focused_pane_idx |-> focused_pane_idx,
     focus_on_chat_list |-> focus_on_chat_list, status_message |-> status_message]

InitCalls ==
    /\ AppNew(<<>>)
    /\ script = [op |-> "new", left |-> MaxCalls, before |-> Before]

Called(op, A) ==
    /\ script.left > 0
    /\ A
    /\ script' = [op |-> op, left |-> script.left - 1, before |-> Before]

focus_frame == <<pane_tree, status_message, selected_chat_idx, pane_areas, chat_list_area,
                 needs_redraw, input_vars, settings, panicked, pc>>

CalledSplitVertical ==
    /\ Len(panes) < MaxPanes
    /\ Called("split_vertical", split_vertical /\ UNCHANGED no_layout_vars)

CalledSplitHorizontal ==
    /\ Len(panes) < MaxPanes
    /\ Called("split_horizontal", split_horizontal /\ UNCHANGED no_layout_vars)

CalledToggleSplitDirection ==
    Called("toggle_split_direction",
           /\ toggle_split_direction
           /\ UNCHANGED <<panes, focused_pane_idx, focus_on_chat_list, chats,
                          selected_chat_idx, pane_areas, chat_list_area, needs_redraw,
                          input_vars, settings, panicked, pc>>)

CalledClosePane ==
    Called("close_pane",
           /\ close_pane
           /\ UNCHANGED <<panes, focus_on_chat_list, chats, selected_chat_idx,
                          pane_areas, chat_list_area, needs_redraw, input_vars, settings,
                          panicked, pc>>)

CalledFocusNextPane == Called("focus_next_pane", focus_next_pane /\ UNCHANGED focus_frame)

CalledFocusPrevPane == Called("focus_prev_pane", focus_prev_pane /\ UNCHANGED focus_frame)

CalledCycleFocus == Called("cycle_focus", cycle_focus /\ UNCHANGED focus_frame)

CalledCycleFocusReverse ==
    Called("cycle_focus_reverse", cycle_focus_reverse /\ UNCHANGED focus_frame)

NextCalls ==
    \/ CalledSplitVertical
    \/ CalledSplitHorizontal
    \/ CalledToggleSplitDirection
    \/ CalledClosePane
    \/ CalledFocusNextPane
    \/ CalledFocusPrevPane
    \/ CalledCycleFocus
    \/ CalledCycleFocusReverse

SpecCalls == InitCalls /\ [][NextCalls]_vars

\* ------------------------------------------------ the mouse specification
\* A restart on a saved layout of two panes side by side, the backend knowing the
\* two chats of the chat-list specification: either no pane showed a chat, or
\* pane 0 showed the lid chat and pane 1 the phone chat, for which the backend
\* may report an unread message.  Chats are opened from the chat list, messages
\* arrive, the list is refreshed, and the user clicks on the chat list, on a pane
\* or on neither.  script holds the terminal event the last step read ("none" for
\* a step that read none) and, for a click, its target and the App it hit.
Read(event) == [event |-> event, target |-> <<>>, before |-> <<>>]

NoClick == Read("none")

\* the chats of the saved panes
SavedChats == {<<<<>>, <<>>>>, <<<<LidChatId>>, <<PhoneChatId>>>>}

\* the backend's answers to a handler: every call succeeds, or every call fails
MouseAnswers ==
    {BackendAnswers(Ok(<<PhoneChat(1), LidChat(0)>>), Ok(ChatMessages), Err, Err, Err, Err,
                    FALSE, FALSE, FALSE, 0),
     Offline}

InitMouse ==
    /\ \E d \in ChatDialogs, saved \in SavedChats, be \in MouseAnswers :
          AppNewWithLayout(d, <<SplitNode(Vertical, <<Single(0), Single(1)>>)>>,
                           saved, 0, be)
    /\ script = NoClick

Unclicked(A) == A /\ script' = NoClick

Event(event, A) == A /\ script' = Read(event)

MouseDraw == Unclicked(Draw)
MousePeriodicRefresh == Unclicked(PeriodicRefresh(ChatDialogResults))
MouseSkipRefresh == Unclicked(SkipRefresh)
MouseSkipPoll == Unclicked(SkipPoll)
MouseNoEvent == Unclicked(NoEvent)

MousePollNewMessage ==
    \E chat_jid \in {PhoneChatId, LidChatId} :
        /\ \A i \in 1..Len(chats) : chats[i].id = chat_jid => chats[i].unread < MaxUnread
        /\ Unclicked(PollUpdates(<<NewMessage(chat_jid, FALSE)>>, MouseAnswers))

MouseTab == Event("key", KeyTab)
MouseDown == Event("key", KeyDown)
MouseEnter == Event("key", KeyEnter(MouseAnswers))

MouseMove == Event("mouse", MouseOther)
MouseResize == Event("resize", Resize)

MouseClick ==
    \E target \in ClickTargets(MaxRows) :
        /\ MouseLeftDownAt(target, MaxRows, MouseAnswers)
        /\ script' = [event |-> "click", target |-> target,
                      before |-> [chats |-> chats, panes |-> panes,
                                  focused_pane_idx |-> focused_pane_idx,
                                  focus_on_chat_list |-> focus_on_chat_list]]

NextMouse ==
    \/ MouseDraw
    \/ MousePeriodicRefresh
    \/ MouseSkipRefresh
    \/ MousePollNewMessage
    \/ MouseSkipPoll
    \/ MouseNoEvent
    \/ MouseTab
    \/ MouseDown
    \/ MouseEnter
    \/ MouseMove
    \/ MouseResize
    \/ MouseClick

SpecMouse == InitMouse /\ [][NextMouse]_vars

\* ---------------------------------------------- the completion specification
\* Two panes side by side, no chats: the user presses at most MaxKeys keys, typing
\* characters of TabAlphabet, erasing them and pressing Tab.
TabAlphabet == {"/", "r", "x"}

InitTab == AppNewWithSavedPanes(<<>>, 2) /\ script = MaxKeys

TabDraw == Unscripted(Draw)
TabSkipRefresh == Unscripted(SkipRefresh)
TabSkipPoll == Unscripted(SkipPoll)
TabNoEvent == Unscripted(NoEvent)
TabTab == Pressed(KeyTab)
TabChar == \E c \in TabAlphabet : Pressed(KeyChar(c))
TabBackspace == Pressed(KeyBackspace)

NextTab ==
    \/ TabDraw
    \/ TabSkipRefresh
    \/ TabSkipPoll
    \/ TabNoEvent
    \/ TabTab
    \/ TabChar
    \/ TabBackspace

SpecTab == InitTab /\ [][NextTab]_vars

\* ---------------------------------------------- the send specification
\* One pane restored from a saved layout, with or without a chat; lines are typed
\* and submitted, and the background tasks handle_enter starts finish, with
\* either result, at any later time.  `script` is the last step's kind, the
\* number of Enters and the tasks started so far, each "spawned", "ok" or "failed".
MaxEnters == 3

\* the lines typed into the pane: a message, and /r 1 (reply to message 1)
SendLines == {<<"x">>, <<"/", "r", " ", "1">>}

SendAlphabet == UNION {{line[i] : i \in 1..Len(line)} : line \in SendLines}

\* the backend's answers to a handler: every call succeeds, or every call fails
SendAnswers ==
    {BackendAnswers(Ok(<<PhoneChat(0)>>), Ok(ChatMessages), Err, Err, Err, Err,
                    TRUE, TRUE, FALSE, 2),
     Offline}

InitSend ==
    /\ \E saved \in {<<<<>>>>, <<<<PhoneChatId>>>>}, be \in SendAnswers :
          AppNewWithLayout(<<PhoneChat(0)>>, <<>>, saved, 0, be)
    /\ script = [event |-> "none", enters |-> 0, tasks |-> <<>>]

\* a step of the loop that starts no task
Step(event, A) == A /\ script' = [script EXCEPT !.event = event]

SendDraw == Step("none", Draw)
SendSkipRefresh == Step("none", SkipRefresh)
SendSkipPoll == Step("none", SkipPoll)
SendNoEvent == Step("none", NoEvent)
SendTab == Step("key", KeyTab)

\* a character of one of the lines
SendChar ==
    \E c \in SendAlphabet :
        /\ Step("key", KeyChar(c))
        /\ \A i \in 1..Len(panes') :
              \E line \in SendLines : starts_with(line, panes'[i].input_buffer)

\* Enter on a whole line or on nothing, at most MaxEnters times
SendEnter ==
    /\ script.enters < MaxEnters
    /\ \A i \in 1..Len(panes) : panes[i].input_buffer \in SendLines \cup {<<>>}
    /\ \E be \in SendAnswers :
          /\ KeyEnter({be})
          /\ script' = [event |-> "enter",
                        enters |-> script.enters + 1,
                        tasks |-> script.tasks \o
                                  [i \in 1..Len(spawned_by_enter(be)) |->
                                      [call |-> spawned_by_enter(be)[i],
                                       state |-> "spawned"]]]

\* a background task ends: `let _ = whatsapp.send_message(..).await` drops the
\* result, and the task holds a clone of the client and copies of the texts only
SendTaskEnds ==
    \E i \in 1..Len(script.tasks), result \in {"ok", "failed"} :
        /\ script.tasks[i].state = "spawned"
        /\ script' = [script EXCEPT !.event = "task", !.tasks[i].state = result]
        /\ UNCHANGED app_vars

NextSend ==
    \/ SendDraw
    \/ SendSkipRefresh
    \/ SendSkipPoll
    \/ SendNoEvent
    \/ SendTab
    \/ SendChar
    \/ SendEnter
    \/ SendTaskEnds

SpecSend == InitSend /\ [][NextSend]_vars

\* ----------------------------------------- the unread divider specification
\* The formatter called as in the formatter specification, on panes whose unread
\* count at load runs from 0 to MaxUnreadAtLoad, past the number of messages.
MaxUnreadAtLoad == 4

InitUnread ==
    /\ AppNew(<<>>)
    /\ script \in
         {[phase |-> "call",
           pane |-> [ChatPane_new EXCEPT !.msg_data = msg_data,
                                         !.filter_type = filter.filter_type,
                                         !.filter_value = filter.filter_value,
                                         !.unread_count_at_load = unread],
           flags |-> flags, aliases |-> [id \in {} |-> <<>>],
           iteration |-> <<ThumbsUp, Heart>>,
           now |-> 0, lines |-> <<>>, now_again |-> 0, lines_again |-> <<>>] :
             msg_data \in MessageLists, unread \in 0..MaxUnreadAtLoad,
             filter \in {[filter_type |-> None, filter_value |-> <<>>],
                         [filter_type |-> "Media", filter_value |-> <<Photo>>]},
             flags \in {Flags(FALSE, TRUE, TRUE, TRUE, FALSE),
                        Flags(TRUE, FALSE, FALSE, FALSE, TRUE)}}

SpecUnread == InitUnread /\ [][NextFormat]_vars

\* ------------------------------------------------ the URL specification
\* The formatter called at width ExampleWidth on a pane that shows the message
\* "Check <ExampleUrl> now", alone, after or before another message, with every
\* combination of the display flags, the sender's name short or as long as the
\* width allows no text beside it.
ExampleWidth == 40

\* a URL of 64 characters
ExampleUrl ==
    <<"h", "t", "t", "p", "s", ":", "/", "/", "e", "x", "a", "m", "p", "l", "e", ".",
      "c", "o", "m", "/", "v", "e", "r", "y", "/", "l", "o", "n", "g", "/", "p", "a",
      "t", "h", "/", "t", "h", "a", "t", "/", "s", "h", "o", "u", "l", "d", "/", "b",
      "e", "/", "s", "h", "o", "r", "t", "e", "n", "e", "d", "/", "h", "e", "r", "e">>

ExampleText == <<"C", "h", "e", "c", "k", " ">> \o ExampleUrl \o <<" ", "n", "o", "w">>

ExampleMessage ==
    MessageRecord("m6", "b", <<"B", "o">>, ExampleText, FALSE, LateEvening, <<>>, {}, None)

OtherMessage ==
    MessageRecord("m2", "b", <<"B", "o">>, <<"h", "i">>, FALSE, LateEvening, <<Photo>>,
                  {}, None)

InitUrl ==
    /\ AppNew(<<>>)
    /\ script \in
         {[phase |-> "call", width |-> ExampleWidth,
           pane |-> [ChatPane_new EXCEPT !.msg_data = msg_data],
           flags |-> Flags(compact_mode, show_emojis, show_reactions, show_timestamps,
                           show_line_numbers),
           aliases |-> aliases, iteration |-> <<ThumbsUp, Heart>>,
           now |-> 0, lines |-> <<>>] :
             msg_data \in {<<ExampleMessage>>, <<OtherMessage, ExampleMessage>>,
                           <<ExampleMessage, OtherMessage>>},
             compact_mode \in BOOLEAN, show_emojis \in BOOLEAN, show_reactions \in BOOLEAN,
             show_timestamps \in BOOLEAN, show_line_numbers \in BOOLEAN,
             aliases \in {[id \in {} |-> <<>>],
                          [id \in {"b"} |-> Repeat("n", ExampleWidth - 2)]}}

\* a render formats the pane at the width of the script
FormatAtWidth ==
    /\ script.phase = "call"
    /\ \E now \in Clock :
          script' = [script EXCEPT
                        !.phase = "returned",
                        !.now = now,
                        !.lines = display_lines(script.pane, script.width, script.flags,
                                                script.aliases, now, script.iteration)]
    /\ UNCHANGED app_vars

NextUrl == FormatAtWidth

SpecUrl == InitUrl /\ [][NextUrl]_vars

\* ---------------------------------------------- the focus specification
\* The layout specification with mouse clicks, and with the program ended and
\* started again: `script` is the layout file, <<>> while there is none, else
\* <<[pane_tree, panes, focused_pane]>> as save_state wrote it.
MaxFocusPanes == 3

InitFocus == AppNew(<<>>) /\ script = <<>>

\* the LayoutData save_state writes: every pane's chat, the focused pane, the tree
saved_layout ==
    [pane_tree |-> pane_tree,
     panes |-> [i \in 1..Len(panes) |-> panes[i].chat_id],
     focused_pane |-> focused_pane_idx]

\* main: run_app is left on Ctrl+Q, save_state is called (and may fail, leaving
\* the file as it was), and the program is started again: App::new on the file
QuitAndStartAgain ==
    /\ Running /\ pc = "event"
    /\ \E save_ok \in BOOLEAN :
          LET file == IF save_ok THEN <<saved_layout>> ELSE script
              restored == IF file = <<>> THEN restored_layout(<<>>, <<>>, 0, Offline)
                          ELSE restored_layout(<<file[1].pane_tree>>, file[1].panes,
                                               file[1].focused_pane, Offline)
          IN  /\ script' = file
              /\ pane_tree' = restored.pane_tree
              /\ panes' = restored.panes
              /\ focused_pane_idx' = restored.focused_pane_idx
    /\ focus_on_chat_list' = TRUE
    /\ status_message' = None
    /\ selected_chat_idx' = 0
    /\ pane_areas' = {}
    /\ chat_list_area' = FALSE
    /\ needs_redraw' = TRUE
    /\ input_history' = <<>>
    /\ history_idx' = 0 - 1
    /\ history_temp' = <<>>
    /\ pc' = "draw"
    /\ UNCHANGED <<chats, settings, panicked>>

FocusClick == Unscripted(MouseLeftDown(MaxRows, {Offline}))

\* a split while fewer than MaxFocusPanes panes have been created
FocusSplitVertical == Len(panes) < MaxFocusPanes /\ Unscripted(KeySplitVertical)
FocusSplitHorizontal == Len(panes) < MaxFocusPanes /\ Unscripted(KeySplitHorizontal)

NextFocus ==
    \/ Unscripted(Draw)
    \/ Unscripted(SkipRefresh)
    \/ Unscripted(SkipPoll)
    \/ Unscripted(NoEvent)
    \/ FocusSplitVertical
    \/ FocusSplitHorizontal
    \/ Unscripted(KeyToggleSplit)
    \/ Unscripted(KeyClosePane)
    \/ Unscripted(KeyTab)
    \/ Unscripted(KeyBackTab)
    \/ Unscripted(KeyAltRight)
    \/ Unscripted(KeyAltLeft)
    \/ FocusClick
    \/ QuitAndStartAgain

SpecFocus == InitFocus /\ [][NextFocus]_vars

\* ------------------------------------------ the closed pane specification
\* The program started on a saved layout of two panes side by side, pane 0 showing
\* the phone chat and pane 1 that chat, the other chat or none; panes are focused
\* and closed while messages arrive and the chat list is refreshed.  `script` is
\* the last step of the loop: a NewMessage processed ("new message", with its
\* chat), a periodic refresh ("refresh", with get_dialogs' answer) or anything
\* else ("none"), and the chat list before it.
ClosedDialogResults == {Ok(<<PhoneChat(u), LidChat(0)>>) : u \in 0..MaxUnread} \cup {Err}

ClosedAnswers ==
    {BackendAnswers(dialogs, Ok(ChatMessages), Err, Err, Err, Err, FALSE, FALSE, FALSE, 0) :
        dialogs \in ClosedDialogResults}

Other == [event |-> "none", chat_jid |-> PhoneChatId, dialogs |-> Err, before |-> <<>>]

InitClosed ==
    /\ \E second \in {<<>>, <<PhoneChatId>>, <<LidChatId>>}, be \in ClosedAnswers :
          AppNewWithLayout(<<PhoneChat(0), LidChat(0)>>,
                           <<SplitNode(Vertical, <<Single(0), Single(1)>>)>>,
                           <<<<PhoneChatId>>, second>>, 0, be)
    /\ script = Other

Unrecorded(A) == A /\ script' = Other

ClosedDraw == Unrecorded(Draw)
ClosedSkipRefresh == Unrecorded(SkipRefresh)
ClosedSkipPoll == Unrecorded(SkipPoll)
ClosedNoEvent == Unrecorded(NoEvent)
ClosedTab == Unrecorded(KeyTab)
ClosedClosePane == Unrecorded(KeyClosePane)

\* the 5 s refresh
ClosedPeriodicRefresh ==
    \E dialogs \in ClosedDialogResults :
        /\ PeriodicRefresh({dialogs})
        /\ script' = [event |-> "refresh", chat_jid |-> PhoneChatId,
                      dialogs |-> dialogs, before |-> chats]

\* an incoming message for one of the chats is pending when the 500 ms timer fires
ClosedPollNewMessage ==
    \E chat_jid \in {PhoneChatId, LidChatId} :
        /\ \A i \in 1..Len(chats) : chats[i].unread < MaxUnread
        /\ PollUpdates(<<NewMessage(chat_jid, FALSE)>>, ClosedAnswers)
        /\ script' = [event |-> "new message", chat_jid |-> chat_jid,
                      dialogs |-> Err, before |-> chats]

NextClosed ==
    \/ ClosedDraw
    \/ ClosedSkipRefresh
    \/ ClosedPeriodicRefresh
    \/ ClosedSkipPoll
    \/ ClosedPollNewMessage
    \/ ClosedNoEvent
    \/ ClosedTab
    \/ ClosedClosePane

SpecClosed == InitClosed /\ [][NextClosed]_vars

\* ---------------------------------------------- the echo specification
\* One pane restored with the phone chat open.  The line "x" is typed and sent, the
\* background sends end, messages from the other side arrive in the backend's
\* store, and the sync task's NewMessage makes the next poll reload the pane from
\* the store.  `script` is the last step's kind, the background tasks started so
\* far, the messages of the chat in the backend's store, and whether a NewMessage
\* is pending in the client's queue.
MaxSent == 2
MaxArrived == 2

\* the ids the backend gives to the messages sent and to those that arrive
SentIds == <<"s1", "s2", "s3">>
ArrivedIds == <<"a1", "a2", "a3">>

\* the backend answering a handler while its store holds `store`; get_messages
\* may fail
EchoAnswers(store) ==
    {BackendAnswers(Ok(<<PhoneChat(0)>>), messages, Err, Err, Err, Err, TRUE, TRUE, FALSE,
                    2) : messages \in {Ok(store), Err}}

InitEcho ==
    /\ \E be \in EchoAnswers(ChatMessages) :
          AppNewWithLayout(<<PhoneChat(0)>>, <<>>, <<<<PhoneChatId>>>>, 0, be)
    /\ script = [event |-> "none", tasks |-> <<>>, store |-> ChatMessages,
                 arrived |-> 0, pending |-> FALSE]

EchoDraw == Step("none", Draw)
EchoSkipRefresh == Step("none", SkipRefresh)
EchoNoEvent == Step("none", NoEvent)
EchoTab == Step("key", KeyTab)

\* the poll finds the queue empty
EchoSkipPoll == ~script.pending /\ Step("none", PollUpdates(<<>>, {Offline}))

\* the character x, typed into an empty input
EchoChar ==
    /\ \A i \in 1..Len(panes) : panes[i].input_buffer = <<>>
    /\ Step("key", KeyChar("x"))

\* Enter, at most MaxSent sends being started
EchoEnter ==
    /\ Len(script.tasks) < MaxSent
    /\ \E be \in EchoAnswers(script.store) :
          /\ KeyEnter({be})
          /\ script' = [script EXCEPT
                           !.event = "enter",
                           !.tasks = @ \o [i \in 1..Len(spawned_by_enter(be)) |->
                                             [call |-> spawned_by_enter(be)[i],
                                              state |-> "spawned"]]]

\* a background send ends; a successful one has put the message into the store
EchoTaskEnds ==
    \E i \in 1..Len(script.tasks), result \in {"ok", "failed"} :
        /\ script.tasks[i].state = "spawned"
        /\ script' = [script EXCEPT
                         !.event = "task",
                         !.tasks[i].state = result,
                         !.store = IF result = "ok"
                                   THEN Append(@, MessageData(SentIds[i], my_user_jid,
                                                              script.tasks[i].call.args[2],
                                                              TRUE, 2, None))
                                   ELSE @]
        /\ UNCHANGED app_vars

\* a message of the other side arrives: the sync task finds it in the store and
\* pushes a NewMessage
EchoArrives ==
    /\ script.arrived < MaxArrived /\ ~script.pending
    /\ script' = [script EXCEPT
                     !.event = "arrived",
                     !.arrived = @ + 1,
                     !.pending = TRUE,
                     !.store = Append(@, MessageData(ArrivedIds[script.arrived + 1], "them",
                                                     <<"h", "i">>, FALSE, 2, None))]
    /\ UNCHANGED app_vars

\* the poll takes the pending NewMessage: the pane is reloaded from the store
EchoPoll ==
    /\ script.pending
    /\ PollUpdates(<<NewMessage(PhoneChatId, FALSE)>>, EchoAnswers(script.store))
    /\ script' = [script EXCEPT !.event = "reload", !.pending = FALSE]

NextEcho ==
    \/ EchoDraw
    \/ EchoSkipRefresh
    \/ EchoSkipPoll
    \/ EchoNoEvent
    \/ EchoTab
    \/ EchoChar
    \/ EchoEnter
    \/ EchoTaskEnds
    \/ EchoArrives
    \/ EchoPoll

SpecEcho == InitEcho /\ [][NextEcho]_vars

\* ---------------------------------------------- the chat-list rows specification
\* One pane without a chat and the two chats of the chat-list specification.  The
\* loop draws, refreshes the chat list, polls NewMessages and reads left clicks.
\* `script` is the last step's kind, the rows of the chat list as the last render
\* put them on the screen, and, for a click, its target and the App it hit.

\* App::draw_chat_list: the rows of the list it renders, a header as <<>> and a
\* chat as <<its id>>, in the order unread, active, other
draw_chat_list(cs, ps) ==
    [i \in 1..Len(row_map(cs, ps)) |->
        IF row_map(cs, ps)[i] = <<>> THEN <<>>
        ELSE <<cs[row_map(cs, ps)[i][1] + 1].id>>]

InitRows ==
    /\ \E d \in ChatDialogs, be \in MouseAnswers : AppNewWithLayout(d, <<>>, <<>>, 0, be)
    /\ script = [event |-> "none", drawn |-> <<>>, target |-> <<>>, before |-> <<>>]

RowsDraw ==
    /\ Draw
    /\ script' = [script EXCEPT
                     !.event = "none",
                     !.drawn = IF ~needs_redraw THEN @
                               ELSE IF settings.show_chat_list
                                    THEN draw_chat_list(chats, panes)
                               ELSE <<>>]

RowsPeriodicRefresh == Step("refresh", PeriodicRefresh(ChatDialogResults))
RowsSkipRefresh == Step("none", SkipRefresh)
RowsSkipPoll == Step("none", SkipPoll)
RowsNoEvent == Step("none", NoEvent)

RowsPollNewMessage ==
    \E chat_jid \in {PhoneChatId, LidChatId} :
        /\ \A i \in 1..Len(chats) : chats[i].id = chat_jid => chats[i].unread < MaxUnread
        /\ Step("new message", PollUpdates(<<NewMessage(chat_jid, FALSE)>>, MouseAnswers))

RowsClick ==
    \E target \in ClickTargets(MaxRows) :
        /\ MouseLeftDownAt(target, MaxRows, MouseAnswers)
        /\ script' = [script EXCEPT
                         !.event = "click",
                         !.target = target,
                         !.before = [chats |-> chats, panes |-> panes,
                                     focused_pane_idx |-> focused_pane_idx]]

NextRows ==
    \/ RowsDraw
    \/ RowsPeriodicRefresh
    \/ RowsSkipRefresh
    \/ RowsPollNewMessage
    \/ RowsSkipPoll
    \/ RowsNoEvent
    \/ RowsClick

SpecRows == InitRows /\ [][NextRows]_vars

\* ---------------------------------------------- the notification specification
\* One pane that shows the lid chat or nothing, and the two chats of the chat-list
\* specification.  The loop draws (a status message may expire), refreshes the
\* chat list and polls one incoming NewMessage at a time.  `script` is the last
\* step's kind and, for a NewMessage, its chat, get_dialogs' answer to the refresh
\* inside the handler, and the chat list and status message before it.
NotifyDialogResults ==
    {Ok(<<PhoneChat(u), LidChat(0)>>) : u \in 0..MaxUnread}
        \cup {Ok(<<LidChat(0)>>), Ok(<<>>), Err}

NotifyAnswers(dialogs) ==
    BackendAnswers(dialogs, Ok(ChatMessages), Err, Err, Err, Err, FALSE, FALSE, FALSE, 0)

Quiet ==
    [event |-> "none", chat_jid |-> PhoneChatId, dialogs |-> Err, chats |-> <<>>,
     status_message |-> None]

InitNotify ==
    /\ \E shown \in {<<>>, <<LidChatId>>} :
          AppNewWithLayout(<<PhoneChat(0), LidChat(0)>>, <<>>, <<shown>>, 0,
                           NotifyAnswers(Err))
    /\ script = Quiet

Unnotified(A) == A /\ script' = Quiet

NotifyDraw == Unnotified(Draw)
NotifySkipRefresh == Unnotified(SkipRefresh)
NotifyPeriodicRefresh == Unnotified(PeriodicRefresh(NotifyDialogResults))
NotifySkipPoll == Unnotified(SkipPoll)
NotifyNoEvent == Unnotified(NoEvent)

\* an incoming message for one of the chats is pending when the 500 ms timer fires
NotifyPollNewMessage ==
    \E chat_jid \in {PhoneChatId, LidChatId}, dialogs \in NotifyDialogResults :
        /\ \A i \in 1..Len(chats) : chats[i].unread < MaxUnread
        /\ PollUpdates(<<NewMessage(chat_jid, FALSE)>>, {NotifyAnswers(dialogs)})
        /\ script' = [event |-> "new message", chat_jid |-> chat_jid,
                      dialogs |-> dialogs, chats |-> chats,
                      status_message |-> status_message]

NextNotify ==
    \/ NotifyDraw
    \/ NotifySkipRefresh
    \/ NotifyPeriodicRefresh
    \/ NotifySkipPoll
    \/ NotifyPollNewMessage
    \/ NotifyNoEvent

SpecNotify == InitNotify /\ [][NextNotify]_vars

\* ---------------------------------------------- the reply specification
\* The send specification with the Esc key: /r 1 enters reply mode; Esc, sending
\* the reply, or opening the chat from the chat list leave it.
ReplyEsc == Step("key", KeyEsc)

NextReply ==
    \/ SendDraw
    \/ SendSkipRefresh
    \/ SendSkipPoll
    \/ SendNoEvent
    \/ SendTab
    \/ SendChar
    \/ SendEnter
    \/ SendTaskEnds
    \/ ReplyEsc

SpecReply == InitSend /\ [][NextReply]_vars

\* ---------------------------------------------- the update queue specification
\* The sync task of start_sync_background and the main loop share
\* pending_updates, a Vec behind a tokio Mutex.  The sync task locks it and pushes
\* one NewMessage at a time; the loop's 500 ms step locks it, takes the whole Vec
\* and processes what it took.  `script` is the last step's kind, the holder of
\* the Mutex, the update the sync task is about to push, the Vec, and the updates
\* pushed and returned so far, in order.
MaxPushed == 3

\* poll_updates returning a clone of the Vec and leaving it as it is
poll_updates_cloning(pending) == [updates |-> pending, pending |-> pending]

\* WhatsAppClient::poll_updates, the Mutex held: std::mem::take returns the Vec
\* and leaves an empty one
poll_updates(pending) == [updates |-> pending, pending |-> <<>>]

QueueUpdates == {NewMessage(chat_jid, from_me) : chat_jid \in {PhoneChatId, LidChatId},
                                                 from_me \in BOOLEAN}

InitQueue ==
    /\ \E be \in MouseAnswers : AppNewWithLayout(<<PhoneChat(0), LidChat(0)>>, <<>>, <<>>, 0, be)
    /\ script = [event |-> "none", lock |-> "free", update |-> <<>>, pending |-> <<>>,
                 pushed |-> <<>>, returned |-> <<>>]

QueueDraw == Step("none", Draw)
QueueSkipRefresh == Step("none", SkipRefresh)
QueueNoEvent == Step("none", NoEvent)

\* the 500 ms timer has not elapsed
QueueSkipPoll == script.lock # "poll" /\ Step("none", SkipPoll)

\* the sync task has found a new message: `pending_updates.lock().await`
SyncLocks ==
    /\ script.lock = "free" /\ Len(script.pushed) < MaxPushed
    /\ \E update \in QueueUpdates :
          script' = [script EXCEPT !.event = "sync", !.lock = "sync", !.update = <<update>>]
    /\ UNCHANGED app_vars

\* `.push(update)`, and the guard is dropped at the end of the statement
SyncPushes ==
    /\ script.lock = "sync"
    /\ script' = [script EXCEPT !.event = "sync", !.lock = "free", !.update = <<>>,
                                !.pending = Append(@, script.update[1]),
                                !.pushed = Append(@, script.update[1])]
    /\ UNCHANGED app_vars

\* process_whatsapp_events calls poll_updates: `self.pending_updates.lock().await`
PollLocks ==
    /\ Running /\ pc = "poll"
    /\ script.lock = "free"
    /\ script' = [script EXCEPT !.event = "poll", !.lock = "poll"]
    /\ UNCHANGED app_vars

\* poll_updates takes the Vec and returns, and the loop processes what it got
PollTakes ==
    /\ script.lock = "poll"
    /\ PollUpdates(poll_updates(script.pending).updates, MouseAnswers)
    /\ script' = [script EXCEPT !.event = "poll", !.lock = "free",
                                !.pending = poll_updates(script.pending).pending,
                                !.returned = @ \o poll_updates(script.pending).updates]

NextQueue ==
    \/ QueueDraw
    \/ QueueSkipRefresh
    \/ QueueSkipPoll
    \/ QueueNoEvent
    \/ SyncLocks
    \/ SyncPushes
    \/ PollLocks
    \/ PollTakes

SpecQueue == InitQueue /\ [][NextQueue]_vars

\* the set of leaf ids of a tree
Leaves(node) == {get_pane_indices(node)[i] : i \in 1..Len(get_pane_indices(node))}

\* C1: after any sequence of split_vertical, split_horizontal,
\* toggle_split_direction and close_pane from a single-leaf tree,
\* get_pane_indices() holds no pane id twice and count_panes() equals its length.
C1_LeafIdsDistinct ==
    /\ NoDuplicates(get_pane_indices(pane_tree))
    /\ count_panes(pane_tree) = Len(get_pane_indices(pane_tree))

\* a nested tree of three leaves left after four panes were created and one closed
C1_Witness ==
    /\ Len(panes) = 4
    /\ count_panes(pane_tree) = 3
    /\ pane_tree.kind = "Split"
    /\ \E i \in 1..Len(pane_tree.children) : pane_tree.children[i].kind = "Split"

\* C2: the tree always has at least one leaf; close_pane on a tree of one leaf is
\* rejected (tree, pane array and focus unchanged, the notification
\* "Cannot close the last pane" set), and close_pane reaches its call of
\* find_and_remove_pane only on a tree that is a Split.
C2_LastPaneKept ==
    /\ [](count_panes(pane_tree) >= 1)
    /\ [](~IsLastPane(count_panes(pane_tree)) => pane_tree.kind = "Split")
    /\ [][(KeyClosePane /\ count_panes(pane_tree) = 1)
            => (/\ UNCHANGED <<pane_tree, panes, focused_pane_idx, focus_on_chat_list>>
                /\ status_message' = "Cannot close the last pane")]_vars

\* the last pane of a layout that once had more was asked to close
C2_Witness ==
    /\ count_panes(pane_tree) = 1
    /\ Len(panes) > 1
    /\ status_message = "Cannot close the last pane"

\* C3: the pane array has a slot for every leaf id (its length is at least the
\* greatest leaf id plus one) in every reachable state; a step that adds a leaf
\* appends exactly one empty ChatPane, and the new leaf's id is the previous
\* length; no step shrinks the array or changes which slots exist.
C3_PaneArrayCoversLeaves ==
    /\ [](\A idx \in Leaves(pane_tree) : idx + 1 <= Len(panes))
    /\ [][count_panes(pane_tree') > count_panes(pane_tree)
            => (/\ panes' = Append(panes, ChatPane_new)
                /\ Leaves(pane_tree') = Leaves(pane_tree) \cup {Len(panes)}
                /\ Len(panes) \notin Leaves(pane_tree))]_vars
    /\ [][Len(panes') >= Len(panes)]_vars
    /\ [][Leaves(pane_tree') \ Leaves(pane_tree) \subseteq {Len(panes)}]_vars

\* one leaf left, with the highest id, in an array that kept all its slots
C3_Witness ==
    /\ Len(panes) = 3
    /\ get_pane_indices(pane_tree) = <<2>>

\* C5: for every pane tree and every n >= 0: from the focus on the chat list
\* (the auxiliary list), n calls of cycle_focus followed by n calls of
\* cycle_focus_reverse end with the focus on the chat list again.
C5_CycleThenReverseReturns ==
    (script.phase = "bwd" /\ script.left = 0) => focus_on_chat_list

\* a round trip of at least three calls each way over at least two leaves is done
C5_Witness ==
    /\ script.phase = "bwd" /\ script.left = 0 /\ script.fwd >= 3
    /\ count_panes(pane_tree) >= 2
    /\ focus_on_chat_list

\* C6: from the chat list, successive calls of cycle_focus put the focus on the
\* leaves p1..pk in the order of get_pane_indices, each leaf once, and the call
\* after pk returns the focus to the chat list.
C6_CycleVisitsLeavesInOrder ==
    script.phase = "fwd" =>
        LET all_panes == get_pane_indices(pane_tree)
            j == script.fwd % (Len(all_panes) + 1)
        IN  /\ NoDuplicates(all_panes)
            /\ IF j = 0 THEN focus_on_chat_list
               ELSE ~focus_on_chat_list /\ focused_pane_idx = all_panes[j]

\* a full turn over four leaves: k + 1 calls, and the focus is on the chat list
C6_Witness ==
    /\ script.phase = "fwd"
    /\ count_panes(pane_tree) = 4
    /\ script.fwd = 5
    /\ focus_on_chat_list

\* C4: after every input operation (typing, backspace, delete, left, right, home,
\* end, Tab completion, history, Enter, clear_pane) each pane's input_cursor is a
\* byte offset within its input_buffer that lies on a character boundary.
C4_CursorOnCharBoundary ==
    \A i \in 1..Len(panes) :
        is_char_boundary(panes[i].input_buffer, panes[i].input_cursor)

\* C7: whenever cycle_focus, cycle_focus_reverse, focus_next_pane or focus_prev_pane
\* moves the focus onto a pane whose open chat is in the chat list, that chat's
\* unread counter is 0 immediately afterwards.
C7_FocusMoveClearsUnread ==
    [][(/\ cycle_focus \/ cycle_focus_reverse \/ focus_next_pane \/ focus_prev_pane
        /\ ~focus_on_chat_list'
        /\ HasPane(panes', focused_pane_idx')
        /\ PaneAt(panes', focused_pane_idx').chat_id # <<>>)
       => \A i \in 1..Len(chats') :
              chats'[i].id = PaneAt(panes', focused_pane_idx').chat_id[1]
                  => chats'[i].unread = 0]_vars

\* a focus key has just put the focus on a pane whose chat is listed, unread 0,
\* while the other chat still has unread messages
C7_Witness ==
    /\ pc = "draw" /\ needs_redraw /\ ~focus_on_chat_list
    /\ HasPane(panes, focused_pane_idx)
    /\ FocusedPane.chat_id # <<>>
    /\ \E i \in 1..Len(chats) :
          chats[i].id = FocusedPane.chat_id[1] /\ chats[i].unread = 0
    /\ \E i \in 1..Len(chats) :
          chats[i].id # FocusedPane.chat_id[1] /\ chats[i].unread > 0

\* whether the backend ever reports `unread` or more for the chat: a listed counter
\* above every reported count holds increments made by incoming NewMessages
Reported(chat_id, unread) ==
    \E d \in ChatDialogs : \E k \in 1..Len(d) :
        d[k].id = chat_id /\ d[k].unread >= unread

\* C9: for a chat that is not open in any pane, once an incoming NewMessage has
\* incremented its unread counter, no later step (periodic refresh, the refresh
\* inside process_whatsapp_events, Ctrl+R) lowers the counter while the chat stays
\* listed and not open.
C9_RefreshNeverLowersUnread ==
    [][\A i \in 1..Len(chats) : \A j \in 1..Len(chats') :
          (/\ chats'[j].id = chats[i].id
           /\ ~Reported(chats[i].id, chats[i].unread)
           /\ chats[i].id \notin open_chat_ids(panes)
           /\ chats[i].id \notin open_chat_ids(panes'))
          => chats'[j].unread >= chats[i].unread]_vars

\* the claim's merge rule for one refresh: every chat that is listed locally and is
\* among `entries` is listed afterwards with its unread unchanged if it is open in
\* a pane, and with the larger of the local and the backend's count if it is not
MergesUnread(entries, result) ==
    \A i \in 1..Len(chats) : \A k \in 1..Len(entries) :
        (chats[i].id = entries[k].id /\ FindChat(chats, chats[i].id) = i)
        => /\ FindChat(result, chats[i].id) # 0
           /\ \A j \in 1..Len(result) :
                 result[j].id = chats[i].id
                 => result[j].unread =
                        IF chats[i].id \in open_chat_ids(panes) THEN chats[i].unread
                        ELSE Max(chats[i].unread, entries[k].unread)

C11_BackendFailureNeverEndsLoop == pc # "error"


\* ------------------------------------------------------------ C18 .. C20
\* The ids a split may introduce: every id that is not a leaf of the tree.
FreshIds(node) == (0..(MaxPanes + 1)) \ Leaves(node)

Directions == {Horizontal, Vertical}

\* The tree with every leaf `t` replaced by the subtree `sub`.
RECURSIVE ReplaceLeaf(_, _, _)
ReplaceLeaf(node, t, sub) ==
    IF node.kind = "Single"
    THEN IF node.idx = t THEN sub ELSE node
    ELSE SplitNode(node.direction,
                   [i \in 1..Len(node.children) |-> ReplaceLeaf(node.children[i], t, sub)])

\* The sequence s with n inserted right after its first element equal to t.
InsertAfter(s, t, n) ==
    LET p == position(s, t) + 1
    IN  SubSeq(s, 1, p) \o <<n>> \o SubSeq(s, p + 1, Len(s))

\* C18: for every leaf t of the tree, every fresh id n and either direction,
\* splitting t with n and then find_and_remove_pane(n) returns true and gives
\* back exactly the tree before the split.
C18_SplitThenRemoveRestores ==
    \A t \in Leaves(pane_tree), n \in FreshIds(pane_tree), d \in Directions :
        LET s == split_node_recursive_static(pane_tree, t, d, n)
            r == find_and_remove_pane(s.node, n)
        IN  s.found /\ r.found /\ r.node = pane_tree

\* The tree is the result of splitting a leaf t of a tree of at least two
\* leaves with n, and removing n gives that tree back.
C18_Witness ==
    /\ count_panes(pane_tree) >= 3
    /\ \E t, n \in Leaves(pane_tree), d \in Directions :
          LET r == find_and_remove_pane(pane_tree, n)
          IN  /\ t # n
              /\ r.found
              /\ r.node.kind = "Split"
              /\ split_node_recursive_static(r.node, t, d, n).node = pane_tree

\* C19: splitting leaf t with the new id n puts Split[t, n] in the place of t:
\* the leaf sequence is the previous one with n inserted right after t and
\* the leaf count grows by exactly one.
C19_SplitInsertsAfterTarget ==
    \A t \in Leaves(pane_tree), n \in FreshIds(pane_tree), d \in Directions :
        LET s == split_node_recursive_static(pane_tree, t, d, n)
        IN  /\ s.node = ReplaceLeaf(pane_tree, t, SplitNode(d, <<Single(t), Single(n)>>))
            /\ get_pane_indices(s.node) = InsertAfter(get_pane_indices(pane_tree), t, n)
            /\ count_panes(s.node) = count_panes(pane_tree) + 1

\* The tree holds a Split[t, n] that a split of a leaf in the middle of the
\* leaf sequence produced.
C19_Witness ==
    \E t, n \in Leaves(pane_tree), d \in Directions :
        LET before == find_and_remove_pane(pane_tree, n).node
            indices == get_pane_indices(before)
        IN  /\ t # n
            /\ Len(indices) >= 2
            /\ indices[Len(indices)] # t
            /\ pane_tree = ReplaceLeaf(before, t, SplitNode(d, <<Single(t), Single(n)>>))
            /\ get_pane_indices(pane_tree) = InsertAfter(indices, t, n)

\* find_and_remove_pane took the leaf `id` out of the tree.
RemovedLeaf(before, after, id) ==
    /\ count_panes(after) = count_panes(before) - 1
    /\ ~Contains(get_pane_indices(after), id)

ReturnsWhetherRemoved(node, id) ==
    LET r == find_and_remove_pane(node, id)
    IN  /\ r.found <=> RemovedLeaf(node, r.node, id)
        /\ ~r.found => r.node = node

\* C20 as stated: on every tree and for every id, find_and_remove_pane
\* returns true exactly when it removed the leaf (one leaf fewer, id gone),
\* and a false return leaves the tree unchanged.
C20_ReturnsWhetherRemoved ==
    \A id \in 0..(MaxPanes + 1) : ReturnsWhetherRemoved(pane_tree, id)

\* C20 amended: the same on every tree of more than one leaf, which is what
\* the caller's guard lets through.
C20_ReturnsWhetherRemovedOfSplit ==
    count_panes(pane_tree) > 1 =>
        \A id \in 0..(MaxPanes + 1) : ReturnsWhetherRemoved(pane_tree, id)

\* A tree of nested splits where removing a nested leaf returns true and
\* removing an absent id returns false.
C20_Witness ==
    /\ pane_tree.kind = "Split"
    /\ \E id \in Leaves(pane_tree) :
          /\ DirectChildPos(pane_tree.children, id, 1) = 0
          /\ find_and_remove_pane(pane_tree, id).found
    /\ \E id \in FreshIds(pane_tree) : ~find_and_remove_pane(pane_tree, id).found


\* ------------------------------------------------------------ C14, C15
\* the command line "/<name> <n> <rest>"
CommandLine(name, n, rest) == <<"/">> \o name \o <<" ">> \o DecimalText(n) \o <<" ">> \o rest

\* texts typed after the message number, with the text the backend must get:
\* the words joined by single spaces
ReplyTexts ==
    {[typed |-> <<"a">>, sent |-> <<"a">>],
     [typed |-> <<"a", " ", "b">>, sent |-> <<"a", " ", "b">>],
     [typed |-> <<"a", " ", " ", "b", " ">>, sent |-> <<"a", " ", "b">>]}

\* C14: `/reply n text` on a pane with an open chat and 1 <= n <= number of
\* loaded messages makes exactly one backend call, reply_to_message, with the
\* msg_id of the record at index n-1 and the remaining arguments joined by
\* single spaces.
C14_ReplyCallsBackendOnce ==
    \A i \in 1..Len(panes), be \in CommandAnswers, text \in ReplyTexts,
       name \in {<<"r", "e", "p", "l", "y">>, <<"r">>} :
        \A n \in 1..Len(panes[i].msg_data) :
            panes[i].chat_id # <<>> =>
                LET r == CommandHandler_handle(AppPart, CommandLine(name, n, text.typed),
                                               i - 1, be)
                IN  /\ r.handled
                    /\ r.st.calls =
                           <<[op |-> "reply_to_message",
                              args |-> <<panes[i].chat_id[1], panes[i].msg_data[n].msg_id,
                                         text.sent>>]>>

\* The reply to message 2 of the two loaded messages has been sent.
C14_Witness ==
    /\ panes[1].chat_id # <<>>
    /\ Len(panes[1].msg_data) = 2
    /\ panes[1].messages = <<"Replied to #{}">>
    /\ input_history = <<<<"/", "r", "e", "p", "l", "y", " ", "2", " ", "a", " ", " ", "b">>>>

\* the commands that take a message number
IndexCommands ==
    {<<"r", "e", "p", "l", "y">>, <<"m", "e", "d", "i", "a">>, <<"e", "d", "i", "t">>,
     <<"d", "e", "l", "e", "t", "e">>, <<"a", "l", "i", "a", "s">>,
     <<"u", "n", "a", "l", "i", "a", "s">>, <<"f", "o", "r", "w", "a", "r", "d">>}

\* message numbers outside 1..loaded: negative, zero and past the end
OutOfRange(loaded) == {0 - 12, 0 - 1, 0, loaded + 1, loaded + 10}

\* C15: an index-taking command with a message number outside 1..number of loaded
\* messages makes no backend call, leaves the pane's message list as it was and
\* reports a local error (a notification or a status line of the pane).
C15_OutOfRangeIsLocalError ==
    \A i \in 1..Len(panes), be \in CommandAnswers, name \in IndexCommands :
        \A n \in OutOfRange(Len(panes[i].msg_data)) :
            LET before == [AppPart EXCEPT !.status_message = None]
                r == CommandHandler_handle(before, CommandLine(name, n, <<"a">>), i - 1, be)
            IN  /\ r.st.calls = <<>>
                /\ r.st.panes[i].msg_data = panes[i].msg_data
                /\ \/ r.st.status_message # None
                   \/ r.st.panes[i].messages # panes[i].messages


\* ------------------------------------------------------------------ C17
\* no line of the wrapped text is longer than `width` characters and no
\* character has been cut in two
WrappedWithin(wrapped, width) ==
    /\ \A i \in 1..Len(wrapped) : wrapped[i] # SlicedCharacter
    /\ LET lines == SplitOn(wrapped, Newline)
       IN  \A i \in 1..Len(lines) : Len(lines[i]) <= width

\* C17 as stated: for every text, indent and width no line wrap_text returns
\* has more than `width` characters, and a long word is split between whole
\* characters only.
C17_WrappedLinesWithinWidth ==
    script.phase = "returned" => WrappedWithin(script.wrapped, script.width)

\* C17 amended: the same whenever the width is larger than the indent.
C17_WrappedLinesWithinWidthPastIndent ==
    (script.phase = "returned" /\ script.width > script.indent) =>
        WrappedWithin(script.wrapped, script.width)

\* A word holding a two-byte character, longer than the content width, has been
\* split onto an unpadded first line and a padded continuation line.
C17_Witness ==
    /\ script.phase = "returned"
    /\ script.text = <<"a", EAcute, "a">>
    /\ script.indent = 1
    /\ script.width = 3
    /\ script.wrapped = <<"a", EAcute, Newline, " ", "a">>


\* ------------------------------------------------------- C12, C13, C16
\* the message lines among the formatter's lines
MessageLinesOf(lines) == SelectSeq(lines, LAMBDA line : line.kind = "message")

\* the filter's test as the formatter's contract words it: the resolved sender
\* name contains the value whatever the case, the media kind is the value, the
\* text holds a link
MatchesFilter(pane, aliases, data) ==
    CASE pane.filter_type = "Sender" ->
             contains(to_lowercase(ResolvedSender(aliases, data)),
                      to_lowercase(pane.filter_value[1]))
      [] pane.filter_type = "Media" -> data.media_type = pane.filter_value
      [] pane.filter_type = "Link" ->
             contains(data.text, <<"h", "t", "t", "p", ":", "/", "/">>)
                 \/ contains(data.text, <<"h", "t", "t", "p", "s", ":", "/", "/">>)
      [] OTHER -> TRUE

\* the message is rendered at all: it has a text or a media label
Rendered(data) == data.text # <<>> \/ data.media_type # <<>> \/ data.media_label # <<>>

\* C12: with an active filter the formatter emits message lines only for the
\* messages that match it: as many message lines as there are matching
\* messages to render.
C12_OnlyMatchingMessagesShown ==
    (script.phase = "returned" /\ script.pane.filter_type # None) =>
        Len(MessageLinesOf(script.lines)) =
            Cardinality({i \in 1..Len(script.pane.msg_data) :
                            /\ Rendered(script.pane.msg_data[i])
                            /\ MatchesFilter(script.pane, script.aliases,
                                             script.pane.msg_data[i])})

\* C13: with line numbers shown, the k-th message line is labelled #k.
C13_LabelsCountRenderedLines ==
    (script.phase = "returned" /\ script.flags.show_line_numbers) =>
        \A k \in 1..Len(MessageLinesOf(script.lines)) :
            MessageLinesOf(script.lines)[k].num_str = <<<<"#">> \o DecimalText(k)>>

RECURSIVE Paths(_)
Paths(node) ==
    IF node.kind = "Single" THEN {<<>>}
    ELSE {<<>>} \cup UNION {{<<i>> \o p : p \in Paths(node.children[i])} :
                               i \in 1..Len(node.children)}

RECURSIVE NodeAt(_, _)
NodeAt(node, path) ==
    IF path = <<>> THEN node ELSE NodeAt(node.children[Head(path)], Tail(path))

\* The Split nodes that have the leaf `id` among their own children.
ParentsOf(node, id) ==
    {p \in Paths(node) :
        /\ NodeAt(node, p).kind = "Split"
        /\ \E i \in 1..Len(NodeAt(node, p).children) :
              NodeAt(node, p).children[i] = Single(id)}

\* The tree with the orientation of the Split at `path` flipped and nothing else changed.
RECURSIVE FlippedAt(_, _)
FlippedAt(node, path) ==
    IF path = <<>>
    THEN [node EXCEPT !.direction = IF @ = Horizontal THEN Vertical ELSE Horizontal]
    ELSE [node EXCEPT !.children[Head(path)] = FlippedAt(@, Tail(path))]

\* C21: toggle_split_direction flips the orientation of exactly one Split node,
\* the one that has the focused leaf as a direct child, and leaves every other
\* node, the leaf order, the leaf count, the pane array and the focus unchanged;
\* on a single-pane tree the tree is unchanged and the notice is shown.
C21_ToggleFlipsParentOnly ==
    script.op = "toggle_split_direction" =>
        LET before == script.before
            parents == ParentsOf(before.pane_tree, before.focused_pane_idx)
        IN  /\ Cardinality(parents) <= 1
            /\ IF parents = {}
               THEN /\ count_panes(before.pane_tree) = 1
                    /\ pane_tree = before.pane_tree
                    /\ status_message = "No split to toggle - pane is not in a split"
               ELSE /\ \A p \in parents : pane_tree = FlippedAt(before.pane_tree, p)
                    /\ pane_tree # before.pane_tree
                    /\ status_message = before.status_message
            /\ get_pane_indices(pane_tree) = get_pane_indices(before.pane_tree)
            /\ count_panes(pane_tree) = count_panes(before.pane_tree)
            /\ panes = before.panes
            /\ focused_pane_idx = before.focused_pane_idx
            /\ focus_on_chat_list = before.focus_on_chat_list

\* The toggle has flipped a Split nested inside another one, which kept its
\* orientation, after an earlier toggle on the single pane showed the notice.
C21_Witness ==
    /\ script.op = "toggle_split_direction"
    /\ status_message = "No split to toggle - pane is not in a split"
    /\ \E p \in ParentsOf(pane_tree, focused_pane_idx) :
          /\ p # <<>>
          /\ NodeAt(pane_tree, p).direction # NodeAt(script.before.pane_tree, p).direction
          /\ pane_tree.direction = script.before.pane_tree.direction

\* ------------------------------------------------------------------ C22
\* the ids handed to the tree operations
PaneIds == 0..(MaxPanes + 1)

\* C22: for every id that is not a leaf of the tree, split_node_recursive_static,
\* toggle_split_direction_recursive and find_and_remove_pane return false and
\* leave the tree as it was; none of them aborts.
C22_MissingIdIsNotFound ==
    /\ ~panicked
    /\ \A id \in FreshIds(pane_tree) :
          /\ \A d \in Directions, n \in PaneIds :
                LET s == split_node_recursive_static(pane_tree, id, d, n)
                IN  ~s.found /\ s.node = pane_tree
          /\ LET t == toggle_split_direction_recursive(pane_tree, id)
             IN  ~t.found /\ t.node = pane_tree
          /\ LET r == find_and_remove_pane(pane_tree, id)
             IN  ~r.found /\ r.node = pane_tree

\* A tree of nested splits that lacks the id of a pane closed earlier: the
\* three operations do not find that id.
C22_Witness ==
    /\ count_panes(pane_tree) >= 3
    /\ \E p \in ParentsOf(pane_tree, focused_pane_idx) : p # <<>>
    /\ \E id \in FreshIds(pane_tree) :
          /\ id < Len(panes)
          /\ ~split_node_recursive_static(pane_tree, id, Vertical, Len(panes)).found
          /\ ~toggle_split_direction_recursive(pane_tree, id).found
          /\ ~find_and_remove_pane(pane_tree, id).found

\* ------------------------------------------------------------------ C23
\* q follows p in the sequence s read as a cycle
CyclicSuccessor(s, p, q) ==
    \E i \in 1..Len(s) : s[i] = p /\ q = s[(i % Len(s)) + 1]

\* C23: focus_next_pane and focus_prev_pane change nothing on a tree of fewer
\* than 2 leaves; on a tree of at least 2 leaves they put the focus on the cyclic
\* successor / predecessor of the focused leaf in the order of get_pane_indices
\* (wrapping between the last and the first), and the focus ends on a pane,
\* never on the chat list, wherever it was before.
C23_AltNavigationCyclesAmongPanes ==
    script.op \in {"focus_next_pane", "focus_prev_pane"} =>
        LET before == script.before
            all_panes == get_pane_indices(before.pane_tree)
        IN  /\ pane_tree = before.pane_tree
            /\ IF Len(all_panes) < 2
               THEN /\ focused_pane_idx = before.focused_pane_idx
                    /\ focus_on_chat_list = before.focus_on_chat_list
                    /\ panes = before.panes
                    /\ status_message = before.status_message
               ELSE /\ ~focus_on_chat_list
                    /\ Contains(all_panes, focused_pane_idx)
                    /\ IF script.op = "focus_next_pane"
                       THEN CyclicSuccessor(all_panes, before.focused_pane_idx,
                                            focused_pane_idx)
                       ELSE CyclicSuccessor(all_panes, focused_pane_idx,
                                            before.focused_pane_idx)

\* focus_next_pane, called with the focus on the chat list and the last of at
\* least three leaves focused, has wrapped to the first leaf.
C23_Witness ==
    /\ script.op = "focus_next_pane"
    /\ script.before.focus_on_chat_list
    /\ count_panes(pane_tree) >= 3
    /\ LET all_panes == get_pane_indices(pane_tree)
       IN  /\ script.before.focused_pane_idx = all_panes[Len(all_panes)]
           /\ focused_pane_idx = all_panes[1]
    /\ ~focus_on_chat_list

\* ------------------------------------------------------------------ C24
\* C24: a click inside the rectangle the last render gave leaf p puts the focus
\* on pane p (focus_on_chat_list FALSE) and leaves the unread counter of p's open
\* chat at 0; a click outside every pane rectangle leaves focused_pane_idx as it
\* was.
C24_ClickFocusesPaneAndClearsUnread ==
    script.event = "click" =>
        IF script.target.pane # <<>>
        THEN LET p == script.target.pane[1]
             IN  /\ p \in Leaves(pane_tree)
                 /\ focused_pane_idx = p
                 /\ ~focus_on_chat_list
                 /\ PaneAt(panes, p).chat_id = PaneAt(script.before.panes, p).chat_id
                 /\ \A i \in 1..Len(chats) :
                       <<chats[i].id>> = PaneAt(panes, p).chat_id => chats[i].unread = 0
        ELSE focused_pane_idx = script.before.focused_pane_idx

\* With the focus on the chat list and pane 0 last focused, a click on pane 1 has
\* put the focus there and cleared the unread counter of its chat.
C24_Witness ==
    /\ script.event = "click"
    /\ script.target.pane = <<1>>
    /\ script.before.focus_on_chat_list
    /\ script.before.focused_pane_idx = 0
    /\ focused_pane_idx = 1 /\ ~focus_on_chat_list
    /\ PaneAt(panes, 1).chat_id # <<>>
    /\ \E i \in 1..Len(chats) :
          /\ <<chats[i].id>> = PaneAt(panes, 1).chat_id
          /\ chats[i].unread = 0
          /\ \E j \in 1..Len(script.before.chats) :
                /\ script.before.chats[j].id = chats[i].id
                /\ script.before.chats[j].unread > 0

\* ------------------------------------------------------------------ C25
\* the commands of the vocabulary that begin with `text`, by their place in it
Completions(text) ==
    {i \in 1..Len(AutocompleteCommands) :
        /\ text # <<>> /\ text[1] = "/"
        /\ Len(text) <= Len(AutocompleteCommands[i])
        /\ \A k \in 1..Len(text) : AutocompleteCommands[i][k] = text[k]}

\* the focus has moved one step forward: from the chat list to the first leaf,
\* from a leaf to the next one, from the last leaf to the chat list
ForwardCycled ==
    LET all_panes == get_pane_indices(pane_tree)
    IN  IF focus_on_chat_list
        THEN ~focus_on_chat_list' /\ focused_pane_idx' = all_panes[1]
        ELSE IF focused_pane_idx = all_panes[Len(all_panes)]
        THEN focus_on_chat_list' /\ focused_pane_idx' = focused_pane_idx
        ELSE /\ ~focus_on_chat_list'
             /\ CyclicSuccessor(all_panes, focused_pane_idx, focused_pane_idx')

\* C25: Tab cycles the focus forward exactly when the input buffer of the focused
\* pane is empty or no command of the vocabulary completes it, and then leaves
\* every buffer as it was; otherwise the buffer becomes the first command that
\* begins with it, the cursor is at its end, and the focus is where it was.
C25_TabCompletesOrCycles ==
    [][KeyTab =>
         LET buffer == FocusedPane.input_buffer
             found == Completions(buffer)
         IN  IF found = {}
             THEN /\ ForwardCycled
                  /\ \A i \in 1..Len(panes) :
                        /\ panes'[i].input_buffer = panes[i].input_buffer
                        /\ panes'[i].input_cursor = panes[i].input_cursor
             ELSE /\ UNCHANGED <<focus_on_chat_list, focused_pane_idx>>
                  /\ \E i \in found :
                        /\ \A other \in found : i <= other
                        /\ PaneAt(panes', focused_pane_idx).input_buffer =
                               AutocompleteCommands[i]
                        /\ PaneAt(panes', focused_pane_idx).input_cursor =
                               Len(AutocompleteCommands[i])
                  /\ \A i \in 1..Len(panes) :
                        i # focused_pane_idx + 1 => panes'[i] = panes[i]]_vars

\* Tab has completed "/r" to "/reply" in pane 1, whose focus it kept, after it
\* moved the focus off pane 0, where the text "x" has no completion.
C25_Witness ==
    /\ pc = "draw" /\ needs_redraw
    /\ focused_pane_idx = 1 /\ ~focus_on_chat_list
    /\ PaneAt(panes, 0).input_buffer = <<"x">>
    /\ PaneAt(panes, 1).input_buffer = <<"/", "r", "e", "p", "l", "y">>
    /\ PaneAt(panes, 1).input_cursor = 6

\* ------------------------------------------------------------------ C26
\* what a render shows and records, and what the events change
rendered_vars == <<pane_tree, panes, focused_pane_idx, focus_on_chat_list, status_message,
                   chats, selected_chat_idx, settings>>

\* a terminal event is read in this step
EventRead == script'.event # "none"

\* the draw step renders only when needs_redraw is set, and the render clears it
RenderOnDemand ==
    [][pc = "draw" =>
         IF needs_redraw
         THEN ~needs_redraw' /\ pane_areas' = RenderedPanes(pane_tree, panes)
         ELSE UNCHANGED <<needs_redraw, pane_areas, chat_list_area, status_message>>]_vars

\* every key, mouse and resize event, every poll that returned updates and every
\* periodic refresh sets needs_redraw; nothing that is rendered changes without it
ChangeSetsFlag ==
    /\ [][(EventRead \/ MousePeriodicRefresh \/ MousePollNewMessage) => needs_redraw']_vars
    /\ [][(pc # "draw" /\ rendered_vars' # rendered_vars) => needs_redraw']_vars

\* C26 as stated: a render happens only when needs_redraw is set and clears it;
\* the events, the polls with updates and the periodic refreshes set it; and every
\* such change is rendered before the next terminal event is read, so no event
\* is read while needs_redraw is set.
C26_ChangeRenderedBeforeNextEvent ==
    /\ RenderOnDemand
    /\ ChangeSetsFlag
    /\ [][EventRead => ~needs_redraw]_vars

\* C26 amended: the same, the last part being that every change is rendered by
\* the draw step of the next loop iteration (needs_redraw is clear whenever the
\* loop is past its draw step and nothing has changed since), so a change made by
\* an event is rendered before the next event is read.
C26_ChangeRenderedInNextIteration ==
    /\ RenderOnDemand
    /\ ChangeSetsFlag
    /\ [](pc = "refresh" => ~needs_redraw)
    /\ [][(pc = "draw" /\ pc' = "refresh") => ~needs_redraw']_vars

\* The loop is past the draw step that rendered a change of focus made by an
\* event: the flag is clear and the rectangles are those of the two leaves.
C26_Witness ==
    /\ pc = "refresh" /\ ~needs_redraw
    /\ ~focus_on_chat_list /\ focused_pane_idx = 1
    /\ pane_areas = {0, 1}
    /\ \E i \in 1..Len(chats) : chats[i].unread > 0

\* ------------------------------------------------------------------ C27
\* Enter on a line that is no command, the focus on a pane with a chat open
EnterSendsMessage ==
    /\ script'.event = "enter"
    /\ ~focus_on_chat_list /\ HasPane(panes, focused_pane_idx)
    /\ FocusedPane.input_buffer # <<>>
    /\ ~starts_with(FocusedPane.input_buffer, <<"/">>)
    /\ FocusedPane.chat_id # <<>>

\* the pane after the Enter: the messages it had, then the typed text as an outgoing
\* message; the input empty and the cursor at 0
ShownAtOnce ==
    LET before == FocusedPane
        after == PaneAt(panes', focused_pane_idx)
        shown == after.msg_data[Len(after.msg_data)]
    IN  /\ Len(after.msg_data) = Len(before.msg_data) + 1
        /\ SubSeq(after.msg_data, 1, Len(before.msg_data)) = before.msg_data
        /\ shown.is_outgoing /\ shown.text = before.input_buffer
        /\ shown.sender_id = my_user_jid
        /\ after.input_buffer = <<>> /\ after.input_cursor = 0

\* the Enter started exactly one task, which sends the typed text to the pane's chat
SendStarted ==
    /\ Len(script'.tasks) = Len(script.tasks) + 1
    /\ LET task == script'.tasks[Len(script'.tasks)]
           args == task.call.args
       IN  /\ task.state = "spawned"
           /\ task.call.op \in {"send_message", "reply_to_message"}
           /\ args[1] = FocusedPane.chat_id[1]
           /\ args[Len(args)] = FocusedPane.input_buffer

\* C27: Enter on a non-empty line that is no command, in a focused pane with a
\* chat open, appends the text to the end of the pane's messages as an outgoing
\* message and resets the input buffer and the cursor in the step that starts
\* the background send; the handler leaves the same panes whatever the backend
\* answers at the same time of day, and the end of the send, successful or not,
\* changes nothing of the App.
C27_SendIsShownAtOnce ==
    [][/\ EnterSendsMessage =>
            /\ ShownAtOnce
            /\ SendStarted
            /\ \E be \in SendAnswers : submit_input(be).panes = panes'
            /\ \A be, other \in SendAnswers :
                  submit_input([other EXCEPT !.now = be.now]).panes =
                      submit_input(be).panes
       /\ script'.event = "task" => UNCHANGED app_vars]_vars

\* a send has failed and its text is still the last message of the pane, outgoing,
\* the input empty
C27_Witness ==
    /\ \E i \in 1..Len(script.tasks) :
          /\ script.tasks[i].state = "failed"
          /\ script.tasks[i].call.op = "send_message"
    /\ Len(panes[1].msg_data) > 0
    /\ panes[1].msg_data[Len(panes[1].msg_data)].is_outgoing
    /\ panes[1].msg_data[Len(panes[1].msg_data)].text = <<"x">>
    /\ panes[1].input_buffer = <<>>
    /\ panes[1].input_cursor = 0

\* ------------------------------------------------------------------ C28
\* the positions of the unread dividers among `lines`
Dividers(lines) == {i \in 1..Len(lines) : lines[i].kind = "unread"}

\* the lines of the pane formatted with an unread count of 0
LinesWithoutUnread(pane, now) ==
    display_lines([pane EXCEPT !.unread_count_at_load = 0], FormatWidth, script.flags,
                  script.aliases, now, script.iteration)

\* the number of lines that precede the lines of the message at position p: the
\* lines of the pane cut after message p - 1
LinesBefore(pane, p, now) ==
    Len(LinesWithoutUnread([pane EXCEPT !.msg_data = SubSeq(@, 1, p)], now))

\* `lines` has no divider when u = 0 or there is no message; otherwise it is the
\* lines formatted without unread count, with one divider put in right before the
\* lines of the message at position max(total - u, 0)
DividerBeforeFirstUnread(pane, lines, now) ==
    LET u == pane.unread_count_at_load
        total == Len(pane.msg_data)
        p == IF u > total THEN 0 ELSE total - u
        plain == LinesWithoutUnread(pane, now)
        before == LinesBefore(pane, p, now)
    IN  IF u = 0 \/ total = 0 THEN Dividers(lines) = {}
        ELSE /\ Cardinality(Dividers(lines)) = 1
             /\ Dividers(lines) = {before + 1}
             /\ lines[before + 1].unread_count = u
             /\ SubSeq(lines, 1, before) = SubSeq(plain, 1, before)
             /\ SubSeq(lines, before + 2, Len(lines)) =
                    SubSeq(plain, before + 1, Len(plain))

\* C28: with an unread count at load u > 0 and a non-empty message list the
\* formatter emits exactly one unread divider, immediately before the lines of
\* the message at position total - u (position 0 when u exceeds the total);
\* with u = 0 it emits none.
C28_OneDividerBeforeFirstUnread ==
    /\ script.phase # "call" =>
           DividerBeforeFirstUnread(script.pane, script.lines, script.now)
    /\ script.phase = "again" =>
           DividerBeforeFirstUnread(script.pane, script.lines_again, script.now_again)

\* three messages, two of them unread: the divider stands after the lines of the
\* first message; and formatted again, the same
C28_Witness ==
    /\ script.phase = "again"
    /\ Len(script.pane.msg_data) = 3
    /\ script.pane.msg_data[1].text # <<>>
    /\ script.pane.msg_data[2].text # <<>>
    /\ script.pane.unread_count_at_load = 2
    /\ \E i \in 2..Len(script.lines) :
          /\ script.lines[i].kind = "unread"
          /\ script.lines[1].kind = "message"
          /\ script.lines[i + 1].kind \in {"message", "reply"}

\* ------------------------------------------------------------------ C29
\* the characters of a text that are neither spaces nor line breaks
Squeezed(text) == SelectSeq(text, LAMBDA c : c \notin {" ", Newline})

\* the message lines among `lines` that show the example text
ExampleLines(lines) ==
    {i \in 1..Len(lines) :
        /\ lines[i].kind = "message"
        /\ starts_with(lines[i].text, <<"C", "h", "e", "c", "k">>)}

\* the example text with its URL cut to k characters and "..." put after them,
\* without its spaces
SqueezedWithUrlCutTo(k) ==
    <<"C", "h", "e", "c", "k">> \o SubSeq(ExampleUrl, 1, k) \o <<".", ".", ".">>
        \o <<"n", "o", "w">>

\* the columns the line takes before its text: "#N ", "HH:MM " and "name: "
PrefixColumns(line) ==
    ByteLen(line.sender_name) + 2
        + (IF line.num_str # <<>> THEN Len(line.num_str[1]) + 1 ELSE 0)
        + (IF line.timestamp # <<>> THEN line.timestamp[1].len + 1 ELSE 0)

\* the first line of the text, put after the prefix, and every further line of it
\* end within `width` columns
FitsWithin(line, width) ==
    LET rows == SplitOn(line.text, Newline)
    IN  /\ PrefixColumns(line) + Len(rows[1]) <= width
        /\ \A r \in 2..Len(rows) : Len(rows[r]) <= width

\* C29 as stated: the example text formatted at width 40 shows at most 30
\* characters of the URL followed by "...", and every line fits within 40 columns.
C29_UrlCutToThirty ==
    script.phase = "returned" =>
        \A i \in ExampleLines(script.lines) :
            /\ \E k \in 0..30 : Squeezed(script.lines[i].text) = SqueezedWithUrlCutTo(k)
            /\ FitsWithin(script.lines[i], script.width)

\* C29, amended: the example text formatted at width 40 shows the first 60
\* characters of the URL followed by "..." and otherwise the words of the text;
\* when the prefix of the message line is narrower than the width, every line
\* fits within the width.
C29_UrlCutToSixty ==
    script.phase = "returned" =>
        /\ ExampleLines(script.lines) # {}
        /\ \A i \in ExampleLines(script.lines) :
              /\ Squeezed(script.lines[i].text) = SqueezedWithUrlCutTo(60)
              /\ PrefixColumns(script.lines[i]) < script.width =>
                     FitsWithin(script.lines[i], script.width)

\* the example formatted with line numbers and timestamps shown: the text takes more
\* than three lines, the URL ends with "shortened/...", and all lines fit
C29_Witness ==
    /\ script.phase = "returned"
    /\ script.flags.show_line_numbers /\ script.flags.show_timestamps
    /\ \E i \in ExampleLines(script.lines) :
          /\ PrefixColumns(script.lines[i]) < script.width
          /\ Len(SplitOn(script.lines[i].text, Newline)) > 3
          /\ contains(Squeezed(script.lines[i].text), <<"d", "/", ".", ".", ".">>)
          /\ FitsWithin(script.lines[i], script.width)

\* ------------------------------------------------------------------ C30
\* C30: from a fresh single-pane layout or a layout the program saved, after any
\* sequence of splits, close_pane, toggles, focus cycling, alt-navigation and
\* mouse clicks, focused_pane_idx is the id of a leaf of the pane tree.
C30_FocusedPaneIsALeaf == focused_pane_idx \in Leaves(pane_tree)

\* the program was started on a saved layout that has lost pane 0, the layout has
\* changed since, the last draw gave the panes their rectangles, and the focus
\* is on a pane that is not the first leaf
C30_Witness ==
    /\ script # <<>>
    /\ 0 \notin Leaves(script[1].pane_tree)
    /\ script[1].pane_tree # pane_tree
    /\ pane_areas = Leaves(pane_tree)
    /\ ~focus_on_chat_list
    /\ focused_pane_idx # get_pane_indices(pane_tree)[1]

\* ------------------------------------------------------------------ C31
\* a pane that is a leaf of the tree shows the chat
HeldByLeaf(chat_id) ==
    \E idx \in Leaves(pane_tree) :
        HasPane(panes, idx) /\ PaneAt(panes, idx).chat_id = <<chat_id>>

\* the chat is the chat of some slot of the pane array, and of closed ones only
HeldOnlyByClosedSlots(chat_id) ==
    chat_id \in open_chat_ids(panes) /\ ~HeldByLeaf(chat_id)

\* the unread counter of the chat in a chat list that holds it
UnreadIn(cs, chat_id) == cs[FindChat(cs, chat_id)].unread

\* C31: a chat held only by closed slots of the pane array is not treated as
\* open: an incoming NewMessage for it increments its unread counter, and
\* refresh_chat_list gives it the larger of its own and the backend's count.
C31_ClosedSlotIsNotOpen ==
    /\ (/\ script.event = "new message"
        /\ FindChat(script.before, script.chat_jid) # 0
        /\ HeldOnlyByClosedSlots(script.chat_jid))
           => /\ FindChat(chats, script.chat_jid) # 0
              /\ UnreadIn(chats, script.chat_jid)
                     >= UnreadIn(script.before, script.chat_jid) + 1
    /\ (script.event = "refresh" /\ script.dialogs.ok)
           => \A chat_id \in ChatIds(script.before) \cap ChatIds(script.dialogs.value) :
                  HeldOnlyByClosedSlots(chat_id)
                      => UnreadIn(chats, chat_id) =
                             Max(UnreadIn(script.before, chat_id),
                                 UnreadIn(script.dialogs.value, chat_id))

\* ------------------------------------------------------------------ C32
\* the outgoing messages of the pane
OutgoingShown == SelectSeq(panes[1].msg_data, LAMBDA m : m.is_outgoing)

\* C32: every message sent from the pane is in the pane's message list, as the
\* local echo or as the backend's copy, whatever the order of the background
\* sends and of the reloads a NewMessage triggers.
C32_SentMessageStaysShown == Len(OutgoingShown) >= Len(script.tasks)

\* ------------------------------------------------------------------ C33
\* the last step was a left click on a row of the chat list
ClickedOnList == script.event = "click" /\ script.target.list_row # <<>>

\* the row of the last render the click was on: <<>> for a header, a border or
\* a row below the last chat
DrawnRowClicked ==
    LET relative_y == script.target.list_row[1] - (IF settings.show_borders THEN 1 ELSE 0)
    IN  IF relative_y < 0 \/ relative_y >= Len(script.drawn) THEN <<>>
        ELSE script.drawn[relative_y + 1]

\* the click has put another chat into the focused pane
ClickOpenedChat ==
    /\ ClickedOnList
    /\ HasPane(panes, script.before.focused_pane_idx)
    /\ PaneAt(panes, script.before.focused_pane_idx).chat_id
          # PaneAt(script.before.panes, script.before.focused_pane_idx).chat_id

\* C33: the chat a click on a chat-list row opens is the chat the last render drew
\* on that row, whatever refresh or poll ran between the render and the click.
C33_ClickOpensDrawnChat ==
    ClickOpenedChat =>
        PaneAt(panes, script.before.focused_pane_idx).chat_id = DrawnRowClicked

\* ------------------------------------------------------------------ C34
\* the last step processed an incoming NewMessage for a chat that was in the chat
\* list and that no slot of the pane array held
NewMessageForListedChat ==
    /\ script.event = "new message"
    /\ FindChat(script.chats, script.chat_jid) # 0
    /\ script.chat_jid \notin open_chat_ids(panes)

\* the chat's counter is at least 1 higher than before and the notification is set
CountedAndNotified ==
    /\ FindChat(chats, script.chat_jid) # 0
    /\ UnreadIn(chats, script.chat_jid) >= UnreadIn(script.chats, script.chat_jid) + 1
    /\ status_message = "{}: {}"

\* the refresh inside the handler kept the chat: get_dialogs failed, or its answer,
\* normalised and deduplicated, lists the chat
RefreshKeptChat ==
    \/ ~script.dialogs.ok
    \/ script.chat_jid
          \in ChatIds(deduplicated_chats(normalized_chats(script.dialogs.value), 1, <<>>))

ReportedUnread(chat_id) == IF chat_id = PhoneChatId THEN 1 ELSE 0

\* the counts a handler that opens chat_id can find for it once it has refreshed
\* the chat list cs: the local count, or the larger of it and the backend's
CountsAtLoad(cs, chat_id) ==
    IF FindChat(cs, chat_id) = 0 THEN {ReportedUnread(chat_id)}
    ELSE {UnreadIn(cs, chat_id), Max(UnreadIn(cs, chat_id), ReportedUnread(chat_id))}

\* C35: a step that changes the chat a pane shows leaves the pane's
\* unread_count_at_load at 0 or at the unread count the new chat had when it was
\* loaded, never at a count taken for the chat shown before.
C35_CountAtLoadIsOfShownChat ==
    [][\A i \in 1..Len(panes) :
          (panes'[i].chat_id # panes[i].chat_id /\ panes'[i].chat_id # <<>>)
              => panes'[i].unread_count_at_load
                    \in {0} \cup CountsAtLoad(chats, panes'[i].chat_id[1])]_vars

\* ------------------------------------------------------------------ C36
\* the records of a message list that carry a backend message id; a local echo
\* carries the empty temporary id until a reload replaces it
WithBackendId(msg_data) == SelectSeq(msg_data, LAMBDA m : m.msg_id # "")

\* no two records of the list have the same id
IdsDistinct(msg_data) ==
    \A i, j \in 1..Len(msg_data) : i # j => msg_data[i].msg_id # msg_data[j].msg_id

\* C36: within one pane no two cached message records share a backend message
\* id, after any sequence of opening the chat, poll reloads and optimistic sends.
C36_BackendIdsDistinct ==
    \A p \in 1..Len(panes) : IdsDistinct(WithBackendId(panes[p].msg_data))

\* a reload has brought the backend's copy of a sent message and of an arrived
\* one, and a later send has appended its echo
C36_Witness ==
    /\ \E i \in 1..Len(panes[1].msg_data) : panes[1].msg_data[i].msg_id = "s1"
    /\ \E i \in 1..Len(panes[1].msg_data) : panes[1].msg_data[i].msg_id = "a1"
    /\ \E i \in 1..Len(panes[1].msg_data) : panes[1].msg_data[i].msg_id = ""

\* ------------------------------------------------------------------ C37
\* C37: in every pane reply_preview is set if and only if reply_to_message is
\* set: /reply N sets both, and Esc, sending the reply and opening a chat clear
\* both.
C37_PreviewIffReplyTo ==
    \A p \in 1..Len(panes) :
        (panes[p].reply_preview # None) <=> (panes[p].reply_to_message # None)

\* the pane is in reply mode, replying to the stored message
C37_Witness ==
    /\ panes[1].reply_to_message = "m1"
    /\ panes[1].reply_preview = "Reply to #{}: {}"

\* ------------------------------------------------------------------ C38
\* every Split node of the tree has exactly two children
RECURSIVE SplitsHaveTwoChildren(_)
SplitsHaveTwoChildren(node) ==
    \/ node.kind = "Single"
    \/ /\ Len(node.children) = 2
       /\ \A i \in 1..Len(node.children) : SplitsHaveTwoChildren(node.children[i])

\* C38: in every reachable state every Split node of the pane tree has exactly
\* two children; no Split with zero or one child exists.
C38_SplitsHaveTwoChildren == SplitsHaveTwoChildren(pane_tree)

\* three panes were created and one was closed: the removal left a single child
\* in a Split, which collapsed, and the tree is again a Split of two leaves
C38_Witness ==
    /\ Len(panes) = 3
    /\ pane_tree.kind = "Split"
    /\ count_panes(pane_tree) = 2
    /\ \A i \in 1..Len(pane_tree.children) : pane_tree.children[i].kind = "Single"

\* ------------------------------------------------------------------ C39
\* the chat on the clicked row of the chat list as it was when the click was
\* handled: <<>> for a border, a header or a row below the last chat
ClickedChat ==
    LET border_offset == IF settings.show_borders THEN 1 ELSE 0
        y == script.target.list_row[1]
        rows == draw_chat_list(script.before.chats, script.before.panes)
    IN  IF y < border_offset \/ y >= MaxRows - border_offset THEN <<>>
        ELSE IF y - border_offset >= Len(rows) THEN <<>>
        ELSE rows[y - border_offset + 1]

\* C39: a click on the chat list leaves focus_on_chat_list and focused_pane_idx
\* as they were, changes the chat of no pane but the focused one, and, when the
\* handler returns Ok and the chat is still listed, the focused pane shows the
\* clicked chat.
C39_ListClickKeepsFocus ==
    ClickedOnList =>
        /\ focus_on_chat_list = script.before.focus_on_chat_list
        /\ focused_pane_idx = script.before.focused_pane_idx
        /\ \A i \in 1..Len(panes) :
              i # focused_pane_idx + 1 => panes[i].chat_id = script.before.panes[i].chat_id
        /\ (ClickedChat # <<>> /\ pc # "error" /\ FindChat(chats, ClickedChat[1]) # 0)
              => PaneAt(panes, focused_pane_idx).chat_id = ClickedChat

\* a click on a chat row, the focus on the chat list and on pane 1, has put the
\* clicked chat into pane 1, which showed another chat
C39_Witness ==
    /\ ClickOpenedChat
    /\ ClickedChat # <<>>
    /\ focus_on_chat_list
    /\ focused_pane_idx = 1
    /\ PaneAt(panes, 1).chat_id = ClickedChat
    /\ PaneAt(script.before.panes, 1).chat_id # <<>>

\* ------------------------------------------------------------------ C40
\* C40: every update the sync task has pushed has been returned by exactly one
\* poll_updates call or is still queued, and the updates are returned in the
\* order of the pushes.
C40_PushedReturnedOnceInOrder == script.pushed = script.returned \o script.pending

\* a poll has returned updates, an update pushed since is queued, and the sync
\* task holds the Mutex for the next push
C40_Witness ==
    /\ Len(script.returned) >= 1
    /\ Len(script.pending) >= 1
    /\ script.returned # script.pending
    /\ script.lock = "sync"

====
